---- MODULE Spec2Model ----
(***************************************************************************)
(* WpVet remote scanner: the bounded fetch client (ConcurrencyLimiter and  *)
(* fetchWithRetry), the core version evidence selection, and the site      *)
(* inference orchestrator (scanRemote), as state machines.                 *)
(***************************************************************************)
EXTENDS Integers, Sequences, FiniteSets, TLC

(***************************************************************************)
(* Bounds of the model.                                                    *)
(***************************************************************************)
NumCalls == 3          \* SpecLimiter: fetchWithRetry calls submitted to one limiter
LimiterRetry == 1      \* SpecLimiter: options.retry ranges over 0..LimiterRetry
NumRetryCalls == 2     \* SpecRetry: fetchWithRetry calls submitted to one limiter
MaxRetry == 2          \* SpecRetry: options.retry ranges over 0..MaxRetry
MaxConcurrency == 2    \* options.concurrency ranges over 1..MaxConcurrency
MaxSources == 3        \* SpecSelect: evidence tuples handed to the selection step
NumPlugins == 2        \* SpecScan: plugin slugs in the candidate set
MaxVersionLen == 2     \* SpecCpe: longest version string of a WP-CLI record
MaxDetected == 2       \* SpecVuln: detected plugins handed to runPluginVulnChecks
MaxLines == 3          \* SpecWpCli: lines of the input
NumThemes == 1         \* SpecScan: theme slugs in the candidate set

(***************************************************************************)
(* Program constants.                                                      *)
(***************************************************************************)
NumCoreJsPaths == 4    \* CORE_JS_PATHS.length
NumPatternJsPaths == 2 \* paths of a PLUGIN_JS_PATTERNS entry (contact-form-7)
NumCommonJsPaths == 5  \* commonPaths of detectUnknownPluginFromJs

\* options.retryDelay values tried (DEFAULT_OPTIONS.retryDelay is 1000)
RetryDelays == {250, 1000}

(***************************************************************************)
(* Outcomes of one fetch() attempt and results of fetchWithRetry.          *)
(***************************************************************************)
Statuses == {200, 404, 429, 500}
FetchError == [kind |-> "error", status |-> 0]     \* fetch() rejected: transport error or abort on timeout
Resp(s) == [kind |-> "response", status |-> s]
NullResult == [kind |-> "null", status |-> 0]
Pending == [kind |-> "pending", status |-> 0]
AttemptOutcomes == {FetchError} \cup {Resp(s) : s \in Statuses}

VARIABLES
    maxConcurrency,  \* ConcurrencyLimiter.maxConcurrency
    retry,           \* options.retry
    retryDelay,      \* options.retryDelay
    running,         \* ConcurrencyLimiter.running
    queue,           \* ConcurrencyLimiter.queue: resolvers of the waiting calls, oldest first
    pc,              \* position of each call in limiter.run / fetchWithRetry
    attempt,         \* loop variable `attempt` of each call
    result,          \* value fetchWithRetry's callback returned for each call
    slept,           \* total time each call spent in backoff timers
    arrived,         \* history: the unfinished calls in the order limiter.run was invoked
    traced,          \* whether the attempts of call 1 are recorded in outcomes
    outcomes         \* history: outcomes of the attempts of call 1, oldest first

VARIABLES
    evidence,        \* detectWordPressCore: the `sources` array before it is sorted
    selPc,           \* position in the selection step of detectWordPressCore
    selected         \* the DetectedComponent it returns, or NoComponent for null

VARIABLES
    scanOpts,        \* scanRemote: the form of `url` and options.fingerprint
    main,            \* scanRemote / findActiveBaseUrl / detectWordPressCore: position and locals
    lim,             \* the fetchWithRetry call of each requester: limiter position or result
    plug,            \* each detectPlugin call: position, locals and the value it resolves to
    theme,           \* each detectTheme call: position and the value it resolves to
    scanResult       \* the DetectionResult under construction and how scanRemote settled

VARIABLES
    codec,           \* one use of the CPE functions: input, built component, parse result
    wpcli,           \* one call of parseAndConvert: input lines, loop position, results
    ssh,             \* one call of scanViaSsh: position, locals, last remote command
    fp,              \* one call of detectCoreByJsFingerprint: fetched scripts, matches, result
    vuln             \* one call of runPluginVulnChecks: detected plugins, checks run, findings

fetchVars == <<maxConcurrency, retry, retryDelay, running, queue, pc, attempt,
               result, slept, arrived, traced, outcomes>>
selectVars == <<evidence, selPc, selected>>

limiterVars == <<maxConcurrency, running, queue>>
callVars == <<retry, retryDelay, pc, attempt, result, slept, arrived, traced, outcomes>>
scanVars == <<scanOpts, main, lim, plug, theme, scanResult>>

pureVars == <<codec, wpcli, ssh, fp, vuln>>

vars == <<fetchVars, selectVars, scanVars, pureVars>>

Calls == DOMAIN pc     \* the calls of the run at hand

(***************************************************************************)
(* Strings that the code inspects are sequences of characters.             *)
(***************************************************************************)
UNKNOWN == <<"u", "n", "k", "n", "o", "w", "n">>
DETECTED == <<"d", "e", "t", "e", "c", "t", "e", "d">>
V642 == <<"6", ".", "4", ".", "2">>
V63 == <<"6", ".", "3">>
NoVersion == <<>>      \* null: no match

RECURSIVE ReplaceAll(_, _, _)
\* value.replace(/ch/g, rep) for a single character ch
ReplaceAll(str, ch, rep) ==
    IF str = <<>> THEN <<>>
    ELSE (IF Head(str) = ch THEN rep ELSE <<Head(str)>>) \o ReplaceAll(Tail(str), ch, rep)

\* mutant: escapeCpeValue without the sentinel rule, as cpe.ts had it before v0.3.0
EscapeCpeValueNoSentinel(value) ==
    ReplaceAll(ReplaceAll(ReplaceAll(ReplaceAll(ReplaceAll(value,
        "\\", <<"\\", "\\">>), "*", <<"\\", "*">>), "?", <<"\\", "?">>),
        "\"", <<"\\", "\"">>), ":", <<"\\", ":">>)

\* escapeCpeValue
EscapeCpeValue(value) ==
    IF value = UNKNOWN \/ value = <<"*">> THEN <<"*">>
    ELSE ReplaceAll(ReplaceAll(ReplaceAll(ReplaceAll(ReplaceAll(value,
            "\\", <<"\\", "\\">>), "*", <<"\\", "*">>), "?", <<"\\", "?">>),
            "\"", <<"\\", "\"">>), ":", <<"\\", ":">>)

CpePrefix == <<"c", "p", "e", ":", "2", ".", "3", ":", "a", ":">>
WordPressWord == <<"w", "o", "r", "d", "p", "r", "e", "s", "s">>
CoreCpeTail == <<":", "*", ":", "*", ":", "*", ":", "*", ":", "*", ":", "*", ":", "*">>

\* generateCoreCpe
GenerateCoreCpe(version) ==
    CpePrefix \o WordPressWord \o <<":">> \o WordPressWord \o <<":">>
        \o EscapeCpeValue(version) \o CoreCpeTail

\* Array.prototype.includes / String.prototype.includes for one element
Contains(seq, x) == \E i \in 1..Len(seq) : seq[i] = x

SlugContactForm7 == <<"c", "o", "n", "t", "a", "c", "t", "-", "f", "o", "r", "m", "-", "7">>
SlugJetpack == <<"j", "e", "t", "p", "a", "c", "k">>
SlugJetpackBoost == <<"j", "e", "t", "p", "a", "c", "k", "-", "b", "o", "o", "s", "t">>
VendorRocklobster == <<"r", "o", "c", "k", "l", "o", "b", "s", "t", "e", "r">>
VendorAutomattic == <<"a", "u", "t", "o", "m", "a", "t", "t", "i", "c">>

(***************************************************************************)
(* cpe.ts: normalisation, vendor choice, generation and parsing            *)
(***************************************************************************)
Uppers == <<"A", "B", "C", "D", "E", "F", "G", "H", "I", "J", "K", "L", "M",
            "N", "O", "P", "Q", "R", "S", "T", "U", "V", "W", "X", "Y", "Z">>
Lowers == <<"a", "b", "c", "d", "e", "f", "g", "h", "i", "j", "k", "l", "m",
            "n", "o", "p", "q", "r", "s", "t", "u", "v", "w", "x", "y", "z">>
Digits == {"0", "1", "2", "3", "4", "5", "6", "7", "8", "9"}

\* the characters /[^a-z0-9\-._]/ leaves alone
CpeFieldChars == {Lowers[i] : i \in 1..Len(Lowers)} \cup Digits \cup {"-", ".", "_"}

\* String.prototype.toLowerCase on one character
LowerChar(ch) ==
    IF \E i \in 1..Len(Uppers) : Uppers[i] = ch
    THEN Lowers[CHOOSE i \in 1..Len(Uppers) : Uppers[i] = ch] ELSE ch

RECURSIVE CollapseUnderscores(_)
\* .replace(/_+/g, '_')
CollapseUnderscores(str) ==
    IF Len(str) < 2 THEN str
    ELSE IF str[1] = "_" /\ str[2] = "_" THEN CollapseUnderscores(Tail(str))
    ELSE <<str[1]>> \o CollapseUnderscores(Tail(str))

\* .replace(/^_|_$/g, '')
StripUnderscores(str) ==
    LET a == IF str # <<>> /\ Head(str) = "_" THEN Tail(str) ELSE str
    IN  IF a # <<>> /\ a[Len(a)] = "_" THEN SubSeq(a, 1, Len(a) - 1) ELSE a

\* normalizeCpeField
NormalizeCpeField(value) ==
    LET lower == [i \in 1..Len(value) |-> LowerChar(value[i])]
        replaced == [i \in 1..Len(lower) |->
                        IF lower[i] \in CpeFieldChars THEN lower[i] ELSE "_"]
        stripped == StripUnderscores(CollapseUnderscores(replaced))
    IN  IF stripped = <<>> THEN UNKNOWN ELSE stripped

RECURSIVE Split(_, _)
\* String.prototype.split(sep) for a single character sep
Split(str, sep) ==
    IF ~Contains(str, sep) THEN <<str>>
    ELSE LET k == CHOOSE i \in 1..Len(str) :
                      str[i] = sep /\ \A j \in 1..(i - 1) : str[j] # sep
         IN  <<SubSeq(str, 1, k - 1)>> \o Split(SubSeq(str, k + 1, Len(str)), sep)

\* entries of KNOWN_PLUGIN_VENDORS; <<>> stands for undefined
KnownPluginVendor(slug) ==
    IF slug = SlugContactForm7 THEN VendorRocklobster
    ELSE IF slug = SlugJetpack THEN VendorAutomattic
    ELSE <<>>

\* getVendorForPlugin
GetVendorForPlugin(slug) ==
    LET parts == Split(slug, "-")
    IN  IF KnownPluginVendor(slug) # <<>> THEN NormalizeCpeField(KnownPluginVendor(slug))
        ELSE IF Len(parts) > 1 /\ KnownPluginVendor(parts[1]) # <<>>
        THEN NormalizeCpeField(KnownPluginVendor(parts[1]))
        ELSE NormalizeCpeField(slug)

\* getPluginVendor of config.ts; configVendor is config.pluginVendors?.[slug]
GetPluginVendor(slug, configVendor) ==
    IF configVendor # <<>> THEN configVendor
    ELSE IF KnownPluginVendor(slug) # <<>> THEN KnownPluginVendor(slug)
    ELSE slug

ComponentCpeTail == <<":", "*", ":", "*", ":", "*", ":", "*", ":">> \o WordPressWord
                        \o <<":", "*", ":", "*">>

\* generatePluginCpe; vendor <<>> stands for an absent (or empty) argument
GeneratePluginCpe(slug, version, vendor) ==
    CpePrefix
        \o (IF vendor # <<>> THEN NormalizeCpeField(vendor) ELSE GetVendorForPlugin(slug))
        \o <<":">> \o NormalizeCpeField(slug) \o <<":">> \o EscapeCpeValue(version)
        \o ComponentCpeTail

\* generateThemeCpe
GenerateThemeCpe(slug, version, vendor) ==
    CpePrefix \o NormalizeCpeField(IF vendor # <<>> THEN vendor ELSE slug)
        \o <<":">> \o NormalizeCpeField(slug) \o <<":">> \o EscapeCpeValue(version)
        \o ComponentCpeTail

\* generateCpe
GenerateCpe(component) ==
    IF component.type = "core" THEN GenerateCoreCpe(component.version)
    ELSE IF component.type = "plugin"
    THEN GeneratePluginCpe(component.slug, component.version, <<>>)
    ELSE GenerateThemeCpe(component.slug, component.version, <<>>)

RECURSIVE ReplacePair(_, _, _)
\* s.replace(/\\ch/g, rep): every backslash followed by ch, leftmost first
ReplacePair(str, ch, rep) ==
    IF Len(str) < 2 THEN str
    ELSE IF str[1] = "\\" /\ str[2] = ch
    THEN <<rep>> \o ReplacePair(SubSeq(str, 3, Len(str)), ch, rep)
    ELSE <<str[1]>> \o ReplacePair(Tail(str), ch, rep)

\* the closure `unescape` of parseCpe
CpeUnescape(str) ==
    ReplacePair(ReplacePair(ReplacePair(ReplacePair(ReplacePair(str,
        ":", ":"), "\"", "\""), "?", "?"), "*", "*"), "\\", "\\")

\* parseCpe returns null
NoParse == [matched |-> FALSE, vendor |-> <<>>, product |-> <<>>, version |-> <<>>,
            targetSw |-> <<>>]

\* mutant: the pattern of parseCpe is anchored at the end of a 13-field string
ParseCpeThirteenFields(cpe) ==
    LET f == Split(cpe, ":")
    IN  IF /\ Len(f) = 13
           /\ f[1] = <<"c", "p", "e">> /\ f[2] = <<"2", ".", "3">> /\ f[3] = <<"a">>
           /\ f[4] # <<>> /\ f[5] # <<>> /\ f[6] # <<>>
        THEN [matched |-> TRUE, vendor |-> CpeUnescape(f[4]),
              product |-> CpeUnescape(f[5]),
              version |-> IF f[6] = <<"*">> THEN UNKNOWN ELSE CpeUnescape(f[6]),
              targetSw |-> IF f[11] = <<>> THEN <<"*">> ELSE f[11]]
        ELSE NoParse

\* parseCpe: /^cpe:2\.3:a:([^:]+):([^:]+):([^:]+):[^:]*:[^:]*:[^:]*:[^:]*:([^:]*)/
\* matches when the colon-separated pieces start with cpe, 2.3, a, three
\* non-empty pieces, and an eleventh piece exists
ParseCpe(cpe) ==
    LET f == Split(cpe, ":")
    IN  IF /\ Len(f) >= 11
           /\ f[1] = <<"c", "p", "e">> /\ f[2] = <<"2", ".", "3">> /\ f[3] = <<"a">>
           /\ f[4] # <<>> /\ f[5] # <<>> /\ f[6] # <<>>
        THEN [matched |-> TRUE, vendor |-> CpeUnescape(f[4]),
              product |-> CpeUnescape(f[5]),
              version |-> IF f[6] = <<"*">> THEN UNKNOWN ELSE CpeUnescape(f[6]),
              targetSw |-> IF f[11] = <<>> THEN <<"*">> ELSE f[11]]
        ELSE NoParse

(***************************************************************************)
(* detectWordPressCore: selection of the winning evidence tuple            *)
(***************************************************************************)
\* a.version !== 'detected' && a.version !== 'unknown'
HasVersion(a) == a.version # DETECTED /\ a.version # UNKNOWN

\* mutant: the comparator looks at the confidence only
SortCompareConfidenceOnly(a, b) == b.confidence - a.confidence

\* the comparator handed to sources.sort
SortCompare(a, b) ==
    IF HasVersion(a) # HasVersion(b)
    THEN (IF HasVersion(b) THEN 1 ELSE -1)
    ELSE b.confidence - a.confidence

RECURSIVE InsertSorted(_, _)
\* x goes behind every element that does not compare greater than it
InsertSorted(x, sorted) ==
    IF sorted = <<>> THEN <<x>>
    ELSE IF SortCompare(Head(sorted), x) > 0 THEN <<x>> \o sorted
    ELSE <<Head(sorted)>> \o InsertSorted(x, Tail(sorted))

RECURSIVE StableSort(_)
\* Array.prototype.sort: stable, so equal elements keep their order
StableSort(seq) ==
    IF seq = <<>> THEN <<>>
    ELSE InsertSorted(seq[Len(seq)], StableSort(SubSeq(seq, 1, Len(seq) - 1)))

NoComponent == [type |-> "none", slug |-> "", version |-> NoVersion, cpe |-> <<>>,
                confidence |-> 0]

\* lines 326-350 of detectWordPressCore
SelectCore(sources) ==
    IF Len(sources) = 0 THEN NoComponent
    ELSE LET best == StableSort(sources)[1]
             version == IF best.version = DETECTED THEN UNKNOWN ELSE best.version
         IN  [type |-> "core", slug |-> "wordpress", version |-> version,
              cpe |-> GenerateCoreCpe(version), confidence |-> best.confidence]

EvidenceVersions == {V642, V63, DETECTED, UNKNOWN}
EvidenceConfidences == {60, 85, 95}
EvidenceSources == {"readme.html", "js-fingerprint"}
EvidenceTuples == [version : EvidenceVersions, confidence : EvidenceConfidences,
                   source : EvidenceSources]

RECURSIVE SeqsUpTo(_, _)
\* the sequences over S of length at most n
SeqsUpTo(S, n) ==
    IF n = 0 THEN {<<>>}
    ELSE LET shorter == SeqsUpTo(S, n - 1)
         IN  shorter \cup {Append(q, x) : q \in {r \in shorter : Len(r) = n - 1}, x \in S}

FetchIdle ==
    /\ maxConcurrency = 1 /\ retry = 0 /\ retryDelay = 0 /\ running = 0 /\ queue = <<>>
    /\ pc = <<>> /\ attempt = <<>> /\ result = <<>> /\ slept = <<>> /\ arrived = <<>>
    /\ traced = FALSE /\ outcomes = <<>>

SelectIdle == evidence = <<>> /\ selPc = "idle" /\ selected = NoComponent

CallsIdle ==
    /\ retry = 0 /\ retryDelay = 0 /\ pc = <<>> /\ attempt = <<>> /\ result = <<>>
    /\ slept = <<>> /\ arrived = <<>> /\ traced = FALSE /\ outcomes = <<>>

ScanIdle ==
    /\ scanOpts = <<>> /\ main = <<>> /\ lim = <<>> /\ plug = <<>> /\ theme = <<>>
    /\ scanResult = <<>>

\* the variables each machine leaves alone
PureIdle ==
    /\ codec = <<>> /\ wpcli = <<>> /\ ssh = <<>> /\ fp = <<>> /\ vuln = <<>>

notFetch == <<selectVars, scanVars, pureVars>>
notSelect == <<fetchVars, scanVars, pureVars>>
notScan == <<callVars, selectVars, pureVars>>
notCodec == <<fetchVars, selectVars, scanVars, wpcli, ssh, fp, vuln>>
notWpCli == <<fetchVars, selectVars, scanVars, codec, ssh, fp, vuln>>
notSsh == <<fetchVars, selectVars, scanVars, codec, wpcli, fp, vuln>>
notFp == <<fetchVars, selectVars, scanVars, codec, wpcli, ssh, vuln>>
notVuln == <<fetchVars, selectVars, scanVars, codec, wpcli, ssh, fp>>

(***************************************************************************)
(* ConcurrencyLimiter.run                                                  *)
(***************************************************************************)
\* mutant: the loop condition compares with > instead of >=
LimiterFullOffByOne(r, max) == r > max

\* while (this.running >= this.maxConcurrency)
LimiterFull(r, max) == r >= max

\* mutant: the slot is given back only when the callback produced a response
RunningAfterReleaseOnSuccessOnly(r, res) == IF res = NullResult THEN r ELSE r - 1

\* finally { this.running--; ... }
RunningAfterRelease(r, res) == r - 1

\* mutant: the finally block shifts the queue but never calls the resolver
WokenNobody(q) == {}

\* const next = this.queue.shift(); if (next) next();
Woken(q) == IF q = <<>> THEN {} ELSE {Head(q)}
QueueAfterShift(q) == IF q = <<>> THEN q ELSE Tail(q)

(***************************************************************************)
(* fetchWithRetry                                                          *)
(***************************************************************************)
\* mutant: every error status is retried
IsRetryableStatusAll4xx(status) == status >= 400

\* if (response.status === 429 || response.status >= 500)
IsRetryableStatus(status) == status = 429 \/ status >= 500

\* an attempt after which the loop goes on: the catch branch or the `continue`
IsFailure(o) == o.kind = "error" \/ (o.kind = "response" /\ IsRetryableStatus(o.status))

RECURSIVE Pow2(_)
Pow2(n) == IF n <= 0 THEN 1 ELSE 2 * Pow2(n - 1)

\* mutant: the exponent is attempt instead of attempt - 1
BackoffDelayExponentOff(delay, n) == delay * Pow2(n)

\* const delay = options.retryDelay * Math.pow(2, attempt - 1);
BackoffDelay(delay, n) == delay * Pow2(n - 1)

\* mutant: the loop runs while attempt < options.retry
MoreAttemptsStrict(n, r) == n < r

\* for (...; attempt <= options.retry; ...)
MoreAttempts(n, r) == n <= r

\* new ConcurrencyLimiter(options.concurrency), before n calls are made
FetchInit(n, maxRetry, trace) ==
    /\ maxConcurrency \in 1..MaxConcurrency
    /\ retry \in 0..maxRetry
    /\ retryDelay \in RetryDelays
    /\ running = 0
    /\ queue = <<>>
    /\ pc = [c \in 1..n |-> "idle"]
    /\ attempt = [c \in 1..n |-> 0]
    /\ result = [c \in 1..n |-> Pending]
    /\ slept = [c \in 1..n |-> 0]
    /\ arrived = <<>>
    /\ traced = trace
    /\ outcomes = <<>>
    /\ SelectIdle
    /\ ScanIdle
    /\ PureIdle

LimiterInit == FetchInit(NumCalls, LimiterRetry, FALSE)
RetryInit == FetchInit(NumRetryCalls, MaxRetry, TRUE)

\* The part of limiter.run up to the first suspension: the loop test, then
\* either the push of a resolver or running++ and the first fetch() of fn.
Enter(c) ==
    IF LimiterFull(running, maxConcurrency)
    THEN /\ queue' = Append(queue, c)
         /\ pc' = [pc EXCEPT ![c] = "waiting"]
         /\ UNCHANGED running
    ELSE /\ running' = running + 1
         /\ pc' = [pc EXCEPT ![c] = "fetching"]
         /\ UNCHANGED queue

\* fetchWithRetry(url, options, limiter) is called
Arrive(c) ==
    /\ pc[c] = "idle"
    /\ Enter(c)
    /\ arrived' = Append(arrived, c)
    /\ UNCHANGED <<maxConcurrency, retry, retryDelay, attempt, result, slept, traced, outcomes>>
    /\ UNCHANGED notFetch

\* a waiter whose resolver was called resumes and tests the loop condition again
Resume(c) ==
    /\ pc[c] = "woken"
    /\ Enter(c)
    /\ UNCHANGED <<maxConcurrency, retry, retryDelay, attempt, result, slept, arrived, traced,
                   outcomes>>
    /\ UNCHANGED notFetch

\* the pending fetch() of call c settles with outcome o
AttemptEnds(c, o) ==
    /\ pc[c] = "fetching"
    /\ outcomes' = IF traced /\ c = 1 THEN Append(outcomes, o) ELSE outcomes
    /\ IF IsFailure(o)
       THEN /\ attempt' = [attempt EXCEPT ![c] = attempt[c] + 1]
            /\ IF MoreAttempts(attempt[c] + 1, retry)
               THEN /\ pc' = [pc EXCEPT ![c] = "backoff"]
                    /\ UNCHANGED result
               ELSE /\ pc' = [pc EXCEPT ![c] = "returned"]
                    /\ result' = [result EXCEPT ![c] = NullResult]
       ELSE /\ pc' = [pc EXCEPT ![c] = "returned"]
            /\ result' = [result EXCEPT ![c] = o]
            /\ UNCHANGED attempt
    /\ UNCHANGED <<maxConcurrency, retry, retryDelay, running, queue, slept, arrived, traced>>
    /\ UNCHANGED notFetch

\* the backoff timer of call c fires and the next fetch() is issued
BackoffEnds(c) ==
    /\ pc[c] = "backoff"
    /\ slept' = [slept EXCEPT ![c] = slept[c] + BackoffDelay(retryDelay, attempt[c])]
    /\ pc' = [pc EXCEPT ![c] = "fetching"]
    /\ UNCHANGED <<maxConcurrency, retry, retryDelay, running, queue, attempt, result,
                   arrived, traced, outcomes>>
    /\ UNCHANGED notFetch

\* the finally block of limiter.run
Release(c) ==
    /\ pc[c] = "returned"
    /\ running' = RunningAfterRelease(running, result[c])
    /\ queue' = QueueAfterShift(queue)
    /\ pc' = [d \in Calls |-> IF d = c THEN "done"
                              ELSE IF d \in Woken(queue) THEN "woken"
                              ELSE pc[d]]
    /\ arrived' = SelectSeq(arrived, LAMBDA d : d # c)
    /\ UNCHANGED <<maxConcurrency, retry, retryDelay, attempt, result, slept, traced,
                   outcomes>>
    /\ UNCHANGED notFetch

FetchNext ==
    \/ \E c \in Calls : Arrive(c)
    \/ \E c \in Calls : Resume(c)
    \/ \E c \in Calls, o \in AttemptOutcomes : AttemptEnds(c, o)
    \/ \E c \in Calls : BackoffEnds(c)
    \/ \E c \in Calls : Release(c)

SpecLimiter == LimiterInit /\ [][FetchNext]_vars
SpecRetry == RetryInit /\ [][FetchNext]_vars

(***************************************************************************)
(* Claims about the limiter and fetchWithRetry.                            *)
(***************************************************************************)
\* the calls that hold a slot: between running++ and the finally block
Holders == {c \in Calls : pc[c] \in {"fetching", "backoff", "returned"}}

\* C1: with limit N >= 1 and more than N calls submitted, at every instant at
\* most N calls execute inside the limiter; the running counter stays within
\* 0..N over every interleaving of arrivals and completions.
C1_ConcurrencyCeiling ==
    /\ running >= 0
    /\ running <= maxConcurrency
    /\ Cardinality(Holders) <= maxConcurrency

\* more calls than slots have been submitted, the limiter is full and one waits
C1_Witness ==
    /\ Cardinality(Calls) > maxConcurrency
    /\ \A c \in Calls : pc[c] # "idle"
    /\ running = maxConcurrency
    /\ Cardinality(Holders) = maxConcurrency
    /\ queue # <<>>

\* C3: a call that takes a slot gives it back on every exit path: the counter
\* equals the number of calls between entry and exit, and once all submitted
\* calls have completed the counter is 0, nobody waits, and a later call finds
\* a free slot.
C3_SlotsGivenBack ==
    /\ running = Cardinality(Holders)
    /\ (\A c \in Calls : pc[c] \in {"idle", "done"}) =>
          /\ running = 0
          /\ queue = <<>>
          /\ maxConcurrency - running = maxConcurrency

\* all calls completed, one with all attempts failed and one with a response
C3_Witness ==
    /\ \A c \in Calls : pc[c] = "done"
    /\ \E c \in Calls : result[c] = NullResult
    /\ \E c \in Calls : result[c].kind = "response"

ClaimedFailure(o) ==
    \/ o.kind = "error"
    \/ o.kind = "response" /\ (o.status = 429 \/ o.status >= 500)

\* C5: with retry = R, fetchWithRetry makes between 1 and R+1 attempts, makes a
\* further attempt only after a transport error, a timeout, a 429 or a status
\* >= 500, returns a response with any other status at once, and returns null
\* when all R+1 attempts failed.
C5_RetryPolicy ==
    LET n == Len(outcomes)
        finished == pc[1] \in {"returned", "done"}
    IN  /\ n <= retry + 1
        /\ finished => n >= 1
        /\ \A i \in 1..(n - 1) : ClaimedFailure(outcomes[i])
        /\ (pc[1] \in {"fetching", "backoff"} /\ n >= 1) => ClaimedFailure(outcomes[n])
        /\ (finished /\ ~ClaimedFailure(outcomes[n])) => result[1] = outcomes[n]
        /\ (finished /\ ClaimedFailure(outcomes[n])) =>
              (n = retry + 1 /\ result[1] = NullResult)
        /\ result[1].kind \in {"pending", "null", "response"}

\* every one of R+1 >= 2 attempts failed, the last one with an HTTP status
C5_Witness ==
    /\ pc[1] = "done"
    /\ retry >= 1
    /\ Len(outcomes) = retry + 1
    /\ outcomes[Len(outcomes)].kind = "response"
    /\ result[1] = NullResult

RECURSIVE ClaimedBackoffTotal(_, _)
\* retryDelay * 2^0 + ... + retryDelay * 2^(k-1)
ClaimedBackoffTotal(delay, k) ==
    IF k <= 0 THEN 0 ELSE ClaimedBackoffTotal(delay, k - 1) + delay * Pow2(k - 1)

\* fetch() calls issued so far by a call that holds a slot
AttemptsIssued(c) ==
    IF pc[c] = "fetching" \/ (pc[c] = "returned" /\ result[c] # NullResult)
    THEN attempt[c] + 1
    ELSE attempt[c]

\* C6: no wait before the first attempt, exactly retryDelay * 2^(n-1) before
\* retry attempt n; 500, 500, then 200 with retry = 2 returns the 200 response
\* after a total backoff of retryDelay + 2 * retryDelay.
C6_BackoffSchedule ==
    /\ \A c \in Calls : pc[c] \in {"fetching", "backoff", "returned"} =>
          /\ AttemptsIssued(c) = 1 => slept[c] = 0
          /\ slept[c] = ClaimedBackoffTotal(retryDelay, AttemptsIssued(c) - 1)
    /\ (retry = 2 /\ outcomes = <<Resp(500), Resp(500), Resp(200)>>) =>
          /\ result[1] = Resp(200)
          /\ slept[1] = retryDelay + 2 * retryDelay

\* the scenario of the claim has run to its end
C6_Witness ==
    /\ retry = 2
    /\ outcomes = <<Resp(500), Resp(500), Resp(200)>>
    /\ pc[1] = "returned"

SelectInit ==
    /\ evidence \in SeqsUpTo(EvidenceTuples, MaxSources)
    /\ selPc = "collected"
    /\ selected = NoComponent
    /\ FetchIdle
    /\ ScanIdle
    /\ PureIdle

\* the evidence is sorted and the best tuple becomes the core component
SelectBest ==
    /\ selPc = "collected"
    /\ selected' = SelectCore(evidence)
    /\ selPc' = "returned"
    /\ UNCHANGED <<evidence, notSelect>>

SelectNext == SelectBest

SpecSelect == SelectInit /\ [][SelectNext]_vars

\* what the claim calls a concrete version
ClaimedConcrete(e) == e.version \notin {DETECTED, UNKNOWN}

\* tuple i is preferred to tuple j: concreteness, then confidence, then order
ClaimedBeats(i, j) ==
    \/ ClaimedConcrete(evidence[i]) /\ ~ClaimedConcrete(evidence[j])
    \/ /\ ClaimedConcrete(evidence[i]) = ClaimedConcrete(evidence[j])
       /\ \/ evidence[i].confidence > evidence[j].confidence
          \/ evidence[i].confidence = evidence[j].confidence /\ i < j

\* C8: the winner is chosen by concreteness first, then by higher confidence,
\* then by registration order, and the reported confidence is the winner's;
\* [{6.4.2, 60}, {unknown, 95}] reports 6.4.2 with confidence 60.
C8_WinnerSelection ==
    (selPc = "returned" /\ evidence # <<>>) =>
        /\ \E w \in 1..Len(evidence) :
              /\ \A j \in 1..Len(evidence) : j # w => ClaimedBeats(w, j)
              /\ selected.version = (IF ClaimedConcrete(evidence[w])
                                     THEN evidence[w].version ELSE UNKNOWN)
              /\ selected.confidence = evidence[w].confidence
        /\ (/\ Len(evidence) = 2
            /\ evidence[1].version = V642 /\ evidence[1].confidence = 60
            /\ evidence[2].version = UNKNOWN /\ evidence[2].confidence = 95)
           => (selected.version = V642 /\ selected.confidence = 60)

\* the evidence of the claim's example has been through the selection
C8_Witness ==
    /\ selPc = "returned"
    /\ Len(evidence) = 2
    /\ evidence[1].version = V642 /\ evidence[1].confidence = 60
    /\ evidence[2].version = UNKNOWN /\ evidence[2].confidence = 95
    /\ selected.type = "core"

(***************************************************************************)
(* scanRemote: what the remote server can answer.                          *)
(***************************************************************************)
V641 == <<"6", ".", "4", ".", "1">>
V67 == <<"6", ".", "7">>
V581 == <<"5", ".", "8", ".", "1">>
V57 == <<"5", ".", "7">>
V579 == <<"5", ".", "7", ".", "9">>
V12 == <<"1", ".", "2">>

Plugins == 1..NumPlugins
Themes == (NumPlugins + 1)..(NumPlugins + NumThemes)
Requesters == 0..(NumPlugins + NumThemes)     \* 0 is scanRemote's own chain of awaits

\* plugin 1 stands for a slug with an entry in PLUGIN_JS_PATTERNS, the others have none
HasJsPattern(p) == p = 1

\* A landing page, by what the code's patterns find in it:
\*   generator  the version in the meta generator tag, if there is one
\*   verParam   the most frequent ?ver= value among wp-includes/wp-content URLs
\*   wpPaths    the page contains /wp-content/ or /wp-includes/
\*   wpWord     the page contains WordPress or wp-json
\*   pluginVer  the ?ver= value on an asset URL of each plugin, if there is one
HtmlPages ==
    {h \in [generator : {NoVersion, V642}, verParam : {NoVersion, V63, V57},
            wpPaths : BOOLEAN, wpWord : BOOLEAN,
            pluginVer : [Plugins -> {NoVersion, V57}]] :
        /\ h.generator # NoVersion => h.wpWord
        /\ (\E p \in Plugins : h.pluginVer[p] # NoVersion) =>
              (h.wpPaths /\ h.verParam # NoVersion)
        /\ h.verParam = V57 => (\E p \in Plugins : h.pluginVer[p] # NoVersion)}
NoHtml == [generator |-> NoVersion, verParam |-> NoVersion, wpPaths |-> FALSE,
           wpWord |-> FALSE, pluginVer |-> <<>>]

\* what reading a response body gives: an exception, or a text of one of these kinds
BodyThrows == "throws"
ReadmeHtmlBodies == {BodyThrows, "version", "wordpress-gpl", "other"}
WpJsonBodies == {BodyThrows, "wordpress", "other"}
ReadmeTxtBodies == {BodyThrows, "version", "other"}
StyleCssBodies == {BodyThrows, "version", "other"}
\* what fetchJsFile gives: null, or a script of one of these kinds
CoreJsContents == {"none", "hash", "comment", "hash+comment"}
PluginJsContents == {"none", "version", "other"}
\* what fetchWithRetry gives: null, a response with ok status, or one without
FetchResults == {"got-null", "got-ok", "got-notok"}
ResultOf(res) == IF res = "got-null" THEN NullResult
                 ELSE IF res = "got-ok" THEN Resp(200) ELSE Resp(404)

(***************************************************************************)
(* extractCoreVersionFromHtml, ...FromReadme, ...FromWpJson                *)
(***************************************************************************)
Evidence(v, c, src) == [version |-> v, confidence |-> c, source |-> src]

\* mutant: the meta generator is trusted less than readme.html
GeneratorEvidenceLowTrust(v) == Evidence(v, 80, "meta-generator")

\* return { version: generatorMatch[1], confidence: 95, source: 'meta-generator' }
GeneratorEvidence(v) == Evidence(v, 95, "meta-generator")

\* extractCoreVersionFromHtml: the evidence tuples it contributes (none or one)
HtmlEvidence(h) ==
    IF h.generator # NoVersion THEN <<GeneratorEvidence(h.generator)>>
    ELSE IF h.verParam # NoVersion THEN <<Evidence(h.verParam, 80, "ver-param")>>
    ELSE <<>>

\* extractCoreVersionFromReadme, once the body was read
ReadmeHtmlEvidence(body) ==
    IF body = "version" THEN <<Evidence(V641, 85, "readme.html")>>
    ELSE IF body = "wordpress-gpl" THEN <<Evidence(DETECTED, 60, "readme.html")>>
    ELSE <<>>

\* extractCoreVersionFromWpJson, once response.json() settled (its failure is caught)
WpJsonEvidence(body) ==
    IF body = "wordpress" THEN <<Evidence(DETECTED, 70, "wp-json")>> ELSE <<>>

\* html.includes('/wp-content/') || ... || html.includes('wp-json')
LooksLikeWordPress(h) == h.wpPaths \/ h.wpWord

(***************************************************************************)
(* detectCoreByJsFingerprint                                               *)
(***************************************************************************)
\* the WP_CORE_FINGERPRINTS entry with the fewest versions
FiveVersions == <<<<"6", ".", "6">>, <<"6", ".", "6", ".", "1">>,
                  <<"6", ".", "6", ".", "2">>, V67, <<"6", ".", "7", ".", "1">>>>

HashMatch == [versions |-> FiveVersions, kind |-> "hash"]
CommentMatch == [versions |-> <<V67>>, kind |-> "comment"]

\* the entries one fetched script adds to `matches`
MatchesOf(content) ==
    IF content = "hash" THEN <<HashMatch>>
    ELSE IF content = "comment" THEN <<CommentMatch>>
    ELSE IF content = "hash+comment" THEN <<HashMatch, CommentMatch>>
    ELSE <<>>


RECURSIVE CountedVersions(_, _)
\* the keys of versionCounts in insertion order
CountedVersions(matches, acc) ==
    IF matches = <<>> THEN acc
    ELSE LET vs == Head(matches).versions
             fresh == SelectSeq(vs, LAMBDA v : ~Contains(acc, v))
         IN  CountedVersions(Tail(matches), acc \o fresh)

RECURSIVE VersionCount(_, _)
\* versionCounts.get(v): 1 for each hash match, 2 for each comment match
VersionCount(matches, v) ==
    IF matches = <<>> THEN 0
    ELSE (IF Contains(Head(matches).versions, v)
          THEN (IF Head(matches).kind = "comment" THEN 2 ELSE 1) ELSE 0)
         + VersionCount(Tail(matches), v)

RECURSIVE VersionsMatchedSum(_, _)
\* the sum that avgVersionsPerMatch divides by matches.length
VersionsMatchedSum(matches, v) ==
    IF matches = <<>> THEN 0
    ELSE (IF Contains(Head(matches).versions, v) THEN Len(Head(matches).versions) ELSE 0)
         + VersionsMatchedSum(Tail(matches), v)

RECURSIVE BestVersion(_, _, _)
\* the loop over versionCounts; minSum < 0 stands for minVersionsMatched = Infinity
BestVersion(matches, keys, acc) ==
    IF keys = <<>> THEN acc
    ELSE LET v == Head(keys)
             count == VersionCount(matches, v)
             sum == VersionsMatchedSum(matches, v)
             better == \/ count > acc.maxCount
                       \/ count = acc.maxCount /\ (acc.minSum < 0 \/ sum < acc.minSum)
         IN  BestVersion(matches, Tail(keys),
                IF better THEN [version |-> v, maxCount |-> count, minSum |-> sum]
                ELSE acc)

Min(a, b) == IF a <= b THEN a ELSE b

\* detectCoreByJsFingerprint, once every path was fetched: version and confidence
FingerprintResult(matches) ==
    IF Len(matches) = 0 THEN [version |-> NoVersion, confidence |-> 0]
    ELSE LET best == BestVersion(matches, CountedVersions(matches, <<>>),
                         [version |-> NoVersion, maxCount |-> 0, minSum |-> -1])
             specific == best.minSum >= 0 /\ best.minSum <= 3 * Len(matches)
             confidence == 50 + Min(Len(matches) * 10, 25) + (IF specific THEN 10 ELSE 0)
         IN  [version |-> best.version, confidence |-> Min(confidence, 75)]

\* the tuple detectWordPressCore pushes for a fingerprint result
FingerprintEvidence(matches) ==
    LET r == FingerprintResult(matches)
    IN  IF r.version # NoVersion
        THEN <<Evidence(r.version, r.confidence, "js-fingerprint")>> ELSE <<>>

\* sources.some(s => s.version !== 'detected' && s.version !== 'unknown')
HasPreciseVersion(sources) == \E i \in 1..Len(sources) : HasVersion(sources[i])

\* step 5 of detectWordPressCore: the wp-paths fallback
WithPathsFallback(sources, h) ==
    IF Len(sources) = 0 /\ h.wpPaths
    THEN <<Evidence(UNKNOWN, 50, "wp-paths")>> ELSE sources

(***************************************************************************)
(* scanRemote as a state machine.  A world is the scan's whole state; the  *)
(* operators below map a world to the world after a synchronous stretch of *)
(* code, and each action is one such stretch between two awaits.           *)
(***************************************************************************)
World == [main |-> main, running |-> running, queue |-> queue, lim |-> lim,
          plug |-> plug, theme |-> theme, res |-> scanResult]

Become(w) ==
    /\ main' = w.main
    /\ running' = w.running
    /\ queue' = w.queue
    /\ lim' = w.lim
    /\ plug' = w.plug
    /\ theme' = w.theme
    /\ scanResult' = w.res
    /\ UNCHANGED <<maxConcurrency, scanOpts, notScan>>

\* the value a detection resolves to: a component of a plugin or theme, or null
NoDetection == [type |-> "none", slug |-> 0, version |-> NoVersion, confidence |-> 0]
Detected(type, slug, v, c) == [type |-> type, slug |-> slug, version |-> v, confidence |-> c]

\* urls of findActiveBaseUrl: the schemes tried, in order
CandidateUrls(scheme) ==
    IF scheme = "https" THEN <<"https", "http">>
    ELSE IF scheme = "http" THEN <<"http", "https">>
    ELSE <<"https", "http">>

\* limiter.run up to its first suspension, for requester r
RequestSlot(w, r) ==
    IF LimiterFull(w.running, maxConcurrency)
    THEN [w EXCEPT !.queue = Append(@, r), !.lim[r] = "waiting"]
    ELSE [w EXCEPT !.running = @ + 1, !.lim[r] = "fetching"]

RECURSIVE RequestAll(_, _)
\* the synchronous part of Array.from(set).map(slug => detect...(slug)): every
\* detection runs up to its first await, in iteration order
RequestAll(w, rs) ==
    IF rs = <<>> THEN w ELSE RequestAll(RequestSlot(w, Head(rs)), Tail(rs))

RECURSIVE Range(_, _)
Range(a, b) == IF a > b THEN <<>> ELSE <<a>> \o Range(a + 1, b)

\* scanRemote returns result
Resolve(w) == [w EXCEPT !.main.pc = "done", !.res.settled = "resolved"]
\* an exception leaves scanRemote: the promise it returned rejects
Reject(w) == [w EXCEPT !.main.pc = "done", !.res.settled = "rejected"]
\* mutant: the failure is not recorded in result.errors
WithErrorDropped(w, msg) == w

WithError(w, msg) == [w EXCEPT !.res.errors = Append(@, msg)]

\* findActiveBaseUrl: the loop goes to the next url, or returns null and
\* scanRemote returns the result with one error
NextCandidate(w) ==
    IF w.main.cand < Len(CandidateUrls(scanOpts.scheme))
    THEN RequestSlot([w EXCEPT !.main.cand = @ + 1, !.main.pc = "landing"], 0)
    ELSE Resolve(WithError(w, "Could not connect to the site or WordPress not detected"))

\* the plugin fan-out of scanRemote (lines 516-518)
FanOutPlugins(w) ==
    RequestAll([w EXCEPT !.main.pc = "plugins",
                         !.plug = [p \in Plugins |->
                                     [plug[p] EXCEPT !.pc = "readme"]]],
               Range(1, NumPlugins))

\* the theme fan-out of scanRemote (lines 523-525)
FanOutThemes(w) ==
    RequestAll([w EXCEPT !.main.pc = "themes",
                         !.theme = [t \in Themes |-> [theme[t] EXCEPT !.pc = "style"]]],
               Range(NumPlugins + 1, NumPlugins + NumThemes))

\* mutant: the fan-out starts whether or not a core was detected
FinishCoreAlwaysFanOut(w, sources) ==
    LET core == SelectCore(WithPathsFallback(sources, w.main.html))
    IN  FanOutPlugins([w EXCEPT !.main.sources = sources, !.main.matches = <<>>,
                                !.main.fpIdx = 0, !.res.core = core])

\* detectWordPressCore from step 5 on, then scanRemote lines 487-518; the locals
\* of detectCoreByJsFingerprint are gone, main.sources keeps the evidence collected
FinishCore(w, sources) ==
    LET core == SelectCore(WithPathsFallback(sources, w.main.html))
        w1 == [w EXCEPT !.main.sources = sources, !.main.matches = <<>>,
                        !.main.fpIdx = 0, !.res.core = core]
    IN  IF core = NoComponent
        THEN Resolve(WithError(w1, "WordPress not detected at this URL"))
        ELSE FanOutPlugins(w1)

\* mutant of step 4: the matcher runs whenever fingerprinting is enabled
AfterWpJsonAlwaysFingerprint(w, sources) ==
    IF scanOpts.fingerprint
    THEN [w EXCEPT !.main.pc = "coreJs", !.main.sources = sources,
                   !.main.fpIdx = 1, !.main.matches = <<>>]
    ELSE FinishCore(w, sources)

\* detectWordPressCore step 4: the fingerprint matcher runs or is skipped
AfterWpJson(w, sources) ==
    IF scanOpts.fingerprint /\ ~HasPreciseVersion(sources)
    THEN [w EXCEPT !.main.pc = "coreJs", !.main.sources = sources,
                   !.main.fpIdx = 1, !.main.matches = <<>>]
    ELSE FinishCore(w, sources)

ScanInit ==
    /\ maxConcurrency \in 1..MaxConcurrency
    /\ running = 0
    /\ queue = <<>>
    /\ scanOpts \in [scheme : {"https", "http", "none"}, fingerprint : BOOLEAN]
    /\ main = [pc |-> "start", cand |-> 0, baseUrl |-> "", html |-> NoHtml,
               sources |-> <<>>, fpIdx |-> 0, matches |-> <<>>, finished |-> <<>>]
    /\ lim = [r \in Requesters |-> "none"]
    /\ plug = [p \in Plugins |-> [pc |-> "idle", jsIdx |-> 0, res |-> NoDetection,
                                  tried |-> <<>>, threw |-> FALSE]]
    /\ theme = [t \in Themes |-> [pc |-> "idle", res |-> NoDetection]]
    /\ scanResult = [core |-> NoComponent, plugins |-> <<>>, themes |-> <<>>,
                     errors |-> <<>>, settled |-> "pending"]
    /\ CallsIdle
    /\ SelectIdle
    /\ PureIdle

\* scanRemote up to the first fetchWithRetry of findActiveBaseUrl
StartScan ==
    /\ main.pc = "start"
    /\ Become(NextCandidate(World))

\* a waiting fetchWithRetry call whose resolver was called tests the loop again
ScanResume(r) ==
    /\ lim[r] = "woken"
    /\ Become(RequestSlot(World, r))

\* the callback of fetchWithRetry returns res and the finally block of limiter.run runs
ScanFetchCompletes(r, res) ==
    /\ lim[r] = "fetching"
    /\ Become([World EXCEPT
          !.running = RunningAfterRelease(@, ResultOf(res)),
          !.queue = QueueAfterShift(@),
          !.lim = [x \in Requesters |-> IF x = r THEN res
                                        ELSE IF x \in Woken(queue) THEN "woken"
                                        ELSE lim[x]]])

\* findActiveBaseUrl: the landing page fetch has settled
LandingResponse ==
    /\ main.pc = "landing"
    /\ lim[0] \in FetchResults
    /\ LET w == [World EXCEPT !.lim[0] = "none"]
       IN  Become(IF lim[0] = "got-ok" THEN [w EXCEPT !.main.pc = "landingBody"]
                  ELSE NextCandidate(w))

\* findActiveBaseUrl: response.text() gives the page h; a WordPress page starts
\* detectWordPressCore, which runs up to the fetch of readme.html
LandingBody(h) ==
    /\ main.pc = "landingBody"
    /\ Become(IF LooksLikeWordPress(h)
              THEN RequestSlot([World EXCEPT
                      !.main.pc = "coreReadme",
                      !.main.baseUrl = CandidateUrls(scanOpts.scheme)[main.cand],
                      !.main.html = h,
                      !.main.sources = HtmlEvidence(h)], 0)
              ELSE NextCandidate(World))

\* findActiveBaseUrl: response.text() throws; nothing up to scanRemote catches it
LandingBodyThrows ==
    /\ main.pc = "landingBody"
    /\ Become(Reject(World))

\* extractCoreVersionFromReadme: the fetch of readme.html has settled
CoreReadmeResponse ==
    /\ main.pc = "coreReadme"
    /\ lim[0] \in FetchResults
    /\ LET w == [World EXCEPT !.lim[0] = "none"]
       IN  Become(IF lim[0] = "got-ok" THEN [w EXCEPT !.main.pc = "coreReadmeBody"]
                  ELSE RequestSlot([w EXCEPT !.main.pc = "coreWpJson"], 0))

\* extractCoreVersionFromReadme: response.text() settles; an exception goes up to
\* the catch in scanRemote
CoreReadmeBody(body) ==
    /\ main.pc = "coreReadmeBody"
    /\ Become(IF body = BodyThrows
              THEN Resolve(WithError(World, "Core detection failed"))
              ELSE RequestSlot([World EXCEPT
                      !.main.pc = "coreWpJson",
                      !.main.sources = @ \o ReadmeHtmlEvidence(body)], 0))

\* extractCoreVersionFromWpJson: the fetch of /wp-json/ has settled
CoreWpJsonResponse ==
    /\ main.pc = "coreWpJson"
    /\ lim[0] \in FetchResults
    /\ LET w == [World EXCEPT !.lim[0] = "none"]
       IN  Become(IF lim[0] = "got-ok" THEN [w EXCEPT !.main.pc = "coreWpJsonBody"]
                  ELSE AfterWpJson(w, main.sources))

\* extractCoreVersionFromWpJson: response.json() settles
CoreWpJsonBody(body) ==
    /\ main.pc = "coreWpJsonBody"
    /\ Become(AfterWpJson(World, main.sources \o WpJsonEvidence(body)))

\* detectCoreByJsFingerprint: fetchJsFile of the next path settles
CoreJsFile(content) ==
    /\ main.pc = "coreJs"
    /\ LET matches == main.matches \o MatchesOf(content)
       IN  Become(IF main.fpIdx < NumCoreJsPaths
                  THEN [World EXCEPT !.main.fpIdx = @ + 1, !.main.matches = matches]
                  ELSE FinishCore([World EXCEPT !.main.matches = matches],
                                  main.sources \o FingerprintEvidence(matches)))

(***************************************************************************)
(* detectPlugin and detectTheme.  plug[p].tried records, in order, each    *)
(* source detectPlugin has finished with and the version it gave.          *)
(***************************************************************************)
Tried(w, p, source, v) ==
    [w EXCEPT !.plug[p].tried = Append(@, [source |-> source, version |-> v])]

\* detectPlugin returns (or rejects, which .catch(() => null) turns into null);
\* main.finished records the order in which the detections settle
PluginDone(w, p, res) ==
    [w EXCEPT !.plug[p].pc = "done", !.plug[p].res = res,
              !.main.finished = Append(@, p)]

\* mutant: the exception of one detection is not caught and leaves scanRemote
PluginThrowsAbortsScan(w, p) == Reject([w EXCEPT !.plug[p].threw = TRUE])

\* detectPlugin rejects and .catch(() => null) makes the promise resolve to null
PluginThrows(w, p) == PluginDone([w EXCEPT !.plug[p].threw = TRUE], p, NoDetection)

RECURSIVE NonNullLastFirst(_, _)
\* mutant: the results are listed against the iteration order of the candidates
NonNullLastFirst(f, rs) ==
    IF rs = <<>> THEN <<>>
    ELSE NonNullLastFirst(f, Tail(rs))
         \o (IF f[Head(rs)].res = NoDetection THEN <<>> ELSE <<f[Head(rs)].res>>)

\* mutant: a ?ver= hint of the landing page overrides the readme.txt version
PluginFromReadmeHintWins(p, h) ==
    IF h.pluginVer[p] # NoVersion THEN Detected("plugin", p, h.pluginVer[p], 70)
    ELSE Detected("plugin", p, V581, 85)

\* detectPlugin step 1: the component built from the readme.txt version
PluginFromReadme(p, h) == Detected("plugin", p, V581, 85)

\* detectPlugin step 3: the ?ver= hint of the landing page
PluginHint(w, p) ==
    LET v == w.main.html.pluginVer[p]
    IN  PluginDone(Tried(w, p, "ver-param", v), p,
                   IF v # NoVersion THEN Detected("plugin", p, v, 70) ELSE NoDetection)

\* detectPlugin step 2 starts when fingerprinting is enabled
AfterPluginReadme(w, p) ==
    LET w1 == Tried(w, p, "readme.txt", NoVersion)
    IN  IF scanOpts.fingerprint
        THEN [w1 EXCEPT !.plug[p].pc = "js", !.plug[p].jsIdx = 1]
        ELSE PluginHint(w1, p)

\* pattern.paths of the plugin's PLUGIN_JS_PATTERNS entry, or commonPaths
NumJsPaths(p) == IF HasJsPattern(p) THEN NumPatternJsPaths ELSE NumCommonJsPaths

\* detectPlugin: the fetch of readme.txt has settled
PluginReadmeResponse(p) ==
    /\ plug[p].pc = "readme"
    /\ lim[p] \in FetchResults
    /\ LET w == [World EXCEPT !.lim[p] = "none"]
       IN  Become(IF lim[p] = "got-ok" THEN [w EXCEPT !.plug[p].pc = "readmeBody"]
                  ELSE AfterPluginReadme(w, p))

\* detectPlugin: response.text() of readme.txt settles
PluginReadmeBody(p, body) ==
    /\ plug[p].pc = "readmeBody"
    /\ Become(IF body = BodyThrows
              THEN PluginThrows(World, p)
              ELSE IF body = "version"
              THEN PluginDone(Tried(World, p, "readme.txt", V581), p,
                              PluginFromReadme(p, main.html))
              ELSE AfterPluginReadme(World, p))

\* detectPluginFromJs / detectUnknownPluginFromJs: fetchJsFile of the next path settles
PluginJsFile(p, content) ==
    /\ plug[p].pc = "js"
    /\ LET noVersion == PluginHint(Tried(World, p, "js", NoVersion), p)
           nextPath == IF plug[p].jsIdx < NumJsPaths(p)
                       THEN [World EXCEPT !.plug[p].jsIdx = @ + 1]
                       ELSE noVersion
       IN  Become(IF content = "version"
                  THEN PluginDone(Tried(World, p, "js", V579), p,
                          Detected("plugin", p, V579, IF HasJsPattern(p) THEN 80 ELSE 70))
                  ELSE IF content = "other" /\ HasJsPattern(p)
                  THEN noVersion             \* version 'detected', confidence 50
                  ELSE nextPath)

RECURSIVE NonNull(_, _)
\* results.filter(x => x !== null), in the order of the candidates
NonNull(f, rs) ==
    IF rs = <<>> THEN <<>>
    ELSE (IF f[Head(rs)].res = NoDetection THEN <<>> ELSE <<f[Head(rs)].res>>)
         \o NonNull(f, Tail(rs))

\* await Promise.all(pluginPromises), then the theme fan-out
PluginsJoined ==
    /\ main.pc = "plugins"
    /\ \A p \in Plugins : plug[p].pc = "done"
    /\ Become(FanOutThemes([World EXCEPT
          !.res.plugins = NonNull(plug, Range(1, NumPlugins))]))

\* detectTheme: the fetch of style.css has settled
ThemeStyleResponse(t) ==
    /\ theme[t].pc = "style"
    /\ lim[t] \in FetchResults
    /\ Become([World EXCEPT !.lim[t] = "none",
                            !.theme[t].pc = IF lim[t] = "got-ok" THEN "styleBody"
                                            ELSE "done"])

\* detectTheme: response.text() of style.css settles
ThemeStyleBody(t, body) ==
    /\ theme[t].pc = "styleBody"
    /\ Become([World EXCEPT
          !.theme[t].pc = "done",
          !.theme[t].res = IF body = "version" THEN Detected("theme", t, V12, 85)
                           ELSE NoDetection])

\* await Promise.all(themePromises); return result
ThemesJoined ==
    /\ main.pc = "themes"
    /\ \A t \in Themes : theme[t].pc = "done"
    /\ Become(Resolve([World EXCEPT
          !.res.themes = NonNull(theme, Range(NumPlugins + 1, NumPlugins + NumThemes))]))

ScanNext ==
    \/ StartScan
    \/ \E r \in Requesters : ScanResume(r)
    \/ \E r \in Requesters, res \in FetchResults : ScanFetchCompletes(r, res)
    \/ LandingResponse
    \/ \E h \in HtmlPages : LandingBody(h)
    \/ LandingBodyThrows
    \/ CoreReadmeResponse
    \/ \E body \in ReadmeHtmlBodies : CoreReadmeBody(body)
    \/ CoreWpJsonResponse
    \/ \E body \in WpJsonBodies : CoreWpJsonBody(body)
    \/ \E content \in CoreJsContents : CoreJsFile(content)
    \/ \E p \in Plugins : PluginReadmeResponse(p)
    \/ \E p \in Plugins, body \in ReadmeTxtBodies : PluginReadmeBody(p, body)
    \/ \E p \in Plugins, content \in PluginJsContents : PluginJsFile(p, content)
    \/ PluginsJoined
    \/ \E t \in Themes : ThemeStyleResponse(t)
    \/ \E t \in Themes, body \in StyleCssBodies : ThemeStyleBody(t, body)
    \/ ThemesJoined

SpecScan == ScanInit /\ [][ScanNext]_vars

(***************************************************************************)
(* Properties of scanRemote                                                *)
(***************************************************************************)
\* the HTTP requests of the scan that are in flight: those of fetchWithRetry
\* calls inside limiter.run, and those of fetchJsFile
LimiterRequests == {r \in Requesters : lim[r] = "fetching"}
JsRequests == {p \in Plugins : plug[p].pc = "js"}
RequestsInFlight ==
    Cardinality(LimiterRequests) + Cardinality(JsRequests)
        + (IF main.pc = "coreJs" THEN 1 ELSE 0)

\* C2: every HTTP request of a scan, the JS-fingerprint requests for the core and
\* for each plugin included, is made while holding a limiter slot, so the number
\* of requests in flight never exceeds options.concurrency.
C2_AllRequestsHoldSlot ==
    /\ RequestsInFlight <= maxConcurrency
    /\ RequestsInFlight = running

\* C7: scanRemote never rejects, whatever the server does, a failure while
\* reading the body of the landing page included.
C7_NeverRejects == scanResult.settled # "rejected"

ClaimedCore(v) ==
    [type |-> "core", slug |-> "wordpress", version |-> v,
     cpe |-> <<"c", "p", "e", ":", "2", ".", "3", ":", "a", ":",
               "w", "o", "r", "d", "p", "r", "e", "s", "s", ":",
               "w", "o", "r", "d", "p", "r", "e", "s", "s", ":">> \o v \o
             <<":", "*", ":", "*", ":", "*", ":", "*", ":", "*", ":", "*", ":", "*">>,
     confidence |-> 95]

GeneratorScanSettled ==
    /\ scanResult.settled = "resolved"
    /\ main.html.generator # NoVersion

CoreDetectionFailed == Contains(scanResult.errors, "Core detection failed")

ClaimedOrder ==
    IF scanOpts.fingerprint THEN <<"readme.txt", "js", "ver-param">>
    ELSE <<"readme.txt", "ver-param">>

\* plugin p went through its sources in the claimed order, stopped at the first
\* one that gave a version, and reports that version (with confidence 85 for
\* readme.txt and 70 for the ?ver= hint), or went through all and reports nothing
ClaimedFirstYield(p) ==
    LET t == plug[p].tried
        n == Len(t)
    IN  /\ n >= 1 /\ n <= Len(ClaimedOrder)
        /\ \A i \in 1..n : t[i].source = ClaimedOrder[i]
        /\ \A i \in 1..(n - 1) : t[i].version = NoVersion
        /\ IF t[n].version # NoVersion
           THEN /\ plug[p].res.type = "plugin"
                /\ plug[p].res.version = t[n].version
                /\ t[n].source = "readme.txt" => plug[p].res.confidence = 85
                /\ t[n].source = "ver-param" => plug[p].res.confidence = 70
           ELSE /\ n = Len(ClaimedOrder)
                /\ plug[p].res = NoDetection
        /\ t[n].source = "ver-param" => t[n].version = main.html.pluginVer[p]

C11_ErrorsIffNoCore ==
    scanResult.settled = "resolved" =>
        IF scanResult.core = NoComponent
        THEN /\ scanResult.plugins = <<>>
             /\ scanResult.themes = <<>>
             /\ Len(scanResult.errors) = 1
        ELSE scanResult.errors = <<>>

\* the result without core of a scan whose readme.html body could not be read
C11_Witness ==
    /\ scanResult.settled = "resolved"
    /\ scanResult.core = NoComponent
    /\ scanResult.errors = <<"Core detection failed">>
    /\ main.html.wpPaths

\* a request for a file of a plugin or theme has been issued or is waiting for a slot
ComponentRequested ==
    \/ \E p \in Plugins : plug[p].pc # "idle" \/ lim[p] # "none"
    \/ \E t \in Themes : theme[t].pc # "idle" \/ lim[t] # "none"

\* C12: no request for a plugin's or theme's file is issued before core
\* detection has returned a core; without a base URL or a core none is ever issued.
C12_NoComponentRequestWithoutCore ==
    /\ ComponentRequested =>
          scanResult.core # NoComponent /\ main.pc \in {"plugins", "themes", "done"}
    /\ main.pc \in {"start", "landing", "landingBody", "coreReadme", "coreReadmeBody",
                    "coreWpJson", "coreWpJsonBody", "coreJs"} => ~ComponentRequested

\* plugin requests in flight after a core was found by the fingerprint matcher
C12_Witness ==
    /\ main.pc = "plugins"
    /\ scanResult.core.confidence = 75
    /\ \E p \in Plugins : lim[p] = "fetching"

\* list holds, in increasing slug order and once each, exactly the components
\* that the detections of f returned
ClaimedCandidateOrder(list, f, slugs) ==
    /\ \A i, j \in 1..Len(list) : i < j => list[i].slug < list[j].slug
    /\ \A i \in 1..Len(list) : list[i].slug \in slugs /\ list[i] = f[list[i].slug].res
    /\ \A x \in slugs : f[x].res # NoDetection => \E i \in 1..Len(list) : list[i].slug = x

\* C13: result.plugins and result.themes list the detected slugs in the
\* iteration order of the candidate set, each once, whatever order the
\* detections settled in.
C13_CandidateOrder ==
    scanResult.settled = "resolved" /\ scanResult.core # NoComponent =>
        /\ ClaimedCandidateOrder(scanResult.plugins, plug, Plugins)
        /\ ClaimedCandidateOrder(scanResult.themes, theme, Themes)

\* both plugins detected, the second candidate's detection settled first
C13_Witness ==
    /\ scanResult.settled = "resolved"
    /\ Len(scanResult.plugins) = 2
    /\ main.finished[1] = 2
    /\ scanResult.plugins[1].slug = 1

\* C14: a plugin or theme detection that throws or finds nothing yields no
\* component for its slug only: the scan does not reject and adds no error,
\* every other detection runs to its end and its component is in the result.
C14_FailureIsolated ==
    /\ (\E p \in Plugins : plug[p].threw) => scanResult.settled # "rejected"
    /\ scanResult.settled = "resolved" /\ scanResult.core # NoComponent =>
          /\ scanResult.errors = <<>>
          /\ \A p \in Plugins : plug[p].pc = "done"
          /\ \A t \in Themes : theme[t].pc = "done"
          /\ \A p \in Plugins :
                /\ plug[p].threw =>
                      ~\E i \in 1..Len(scanResult.plugins) : scanResult.plugins[i].slug = p
                /\ ~plug[p].threw =>
                      /\ ClaimedFirstYield(p)
                      /\ plug[p].res # NoDetection =>
                            Contains(scanResult.plugins, plug[p].res)
          /\ \A t \in Themes :
                theme[t].res # NoDetection => Contains(scanResult.themes, theme[t].res)

\* the first plugin's detection threw before the second one settled; the second
\* is reported from its readme.txt and the theme from its style.css
C14_Witness ==
    /\ scanResult.settled = "resolved"
    /\ plug[1].threw
    /\ main.finished = <<1, 2>>
    /\ Len(scanResult.plugins) = 1
    /\ scanResult.plugins[1] = Detected("plugin", 2, V581, 85)
    /\ Len(scanResult.themes) = 1
    /\ scanResult.errors = <<>>

\* the order in which findActiveBaseUrl is claimed to try the schemes
ClaimedUrls ==
    IF scanOpts.scheme = "http" THEN <<"http", "https">> ELSE <<"https", "http">>

\* C15: findActiveBaseUrl tries https then http (the given scheme first) and
\* returns the first candidate with an ok landing page that has a WordPress
\* indicator; it returns null when no candidate qualifies.
C15_FirstQualifyingCandidate ==
    main.pc \notin {"start", "landing", "landingBody"} =>
        \/ /\ main.baseUrl = ClaimedUrls[main.cand]
           /\ LooksLikeWordPress(main.html)
        \/ /\ main.baseUrl = ""
           /\ main.cand = Len(ClaimedUrls)
           /\ scanResult.settled = "resolved"
           /\ scanResult.errors =
                 <<"Could not connect to the site or WordPress not detected">>

(***************************************************************************)
(* The CPE functions as a state machine: a component is built the way      *)
(* scanRemote or wpcliToDetectionResult builds it, its cpe is parsed back   *)
(* and derived again; or parseCpe is applied to an arbitrary string.       *)
(***************************************************************************)
RECURSIVE StringsUpTo(_, _)
\* the non-empty strings over the characters chars of length at most n
StringsUpTo(chars, n) ==
    IF n = 0 THEN {}
    ELSE LET shorter == StringsUpTo(chars, n - 1)
         IN  {<<c>> : c \in chars} \cup shorter
                \cup {Append(t, c) : t \in shorter, c \in chars}

SpecialChars == {"\\", "*", "?", "\"", ":"}
\* version strings of WP-CLI records (any JSON string); <<>> is a record without version
WpCliVersions == StringsUpTo(SpecialChars \cup {"1"}, MaxVersionLen) \cup {UNKNOWN, NoVersion}
\* versions the patterns of remote.ts extract ([\d.]+), and the sentinels of a core
RemoteVersions(type) == {V642} \cup (IF type = "core" THEN {DETECTED, UNKNOWN} ELSE {})
\* slugs: table entries, a slug with a known prefix, names a WP-CLI record can carry
CodecSlugs == {SlugContactForm7, SlugJetpack, SlugJetpackBoost,
               <<"M", "y", " ", "P">>, <<"a", ":", "b">>, <<"*">>}
\* config.pluginVendors?.[slug]: absent, or an override
ConfigVendors == {<<>>, <<"A", "c", "m", "e">>}

CodecInputs ==
    {c \in [origin : {"remote", "wp-cli"}, type : {"core", "plugin", "theme"},
            slug : CodecSlugs \cup {WordPressWord}, version : WpCliVersions \cup {V642, DETECTED},
            configVendor : ConfigVendors] :
        /\ c.type = "core" <=> c.slug = WordPressWord
        /\ c.type # "plugin" => c.configVendor = <<>>
        /\ c.origin = "remote" => c.version \in RemoteVersions(c.type)
        /\ c.origin = "wp-cli" => c.version \in WpCliVersions}

\* strings handed to parseCpe: the first n pieces of a 15-piece identifier, and
\* strings that do not start like an identifier
RawPieces == <<<<"c", "p", "e">>, <<"2", ".", "3">>, <<"a">>, <<"v">>, <<"p">>, <<"1">>,
               <<"*">>, <<"*">>, <<"*">>, <<"*">>, WordPressWord, <<"*">>, <<"*">>,
               <<"*">>, <<"*">>>>

RECURSIVE Join(_, _)
\* Array.prototype.join(sep)
Join(pieces, sep) ==
    IF Len(pieces) = 0 THEN <<>>
    ELSE IF Len(pieces) = 1 THEN pieces[1]
    ELSE pieces[1] \o <<sep>> \o Join(Tail(pieces), sep)

RawStrings ==
    {Join(SubSeq(RawPieces, 1, n), ":") : n \in 1..Len(RawPieces)}
        \cup {Join([RawPieces EXCEPT ![i] = <<"x">>], ":") : i \in 1..3}
        \cup {Join([RawPieces EXCEPT ![i] = <<>>], ":") : i \in 4..6}
        \cup {<<"n", "o", "t", "-", "a", "-", "c", "p", "e">>, <<>>}

\* String(obj.version || 'unknown') of parsePluginList / parseThemeList / parseWpCliInput
RecordVersion(v) == IF v = NoVersion THEN UNKNOWN ELSE v

\* the component as scanRemote or wpcliToDetectionResult builds it
BuiltComponent(c) ==
    IF c.type = "core"
    THEN (IF c.origin = "remote" THEN SelectCore(<<Evidence(c.version, 70, "any")>>)
          ELSE [type |-> "core", slug |-> WordPressWord,
                version |-> RecordVersion(c.version),
                cpe |-> GenerateCoreCpe(RecordVersion(c.version)), confidence |-> 100])
    ELSE LET version == IF c.origin = "wp-cli" THEN RecordVersion(c.version) ELSE c.version
         IN  [type |-> c.type, slug |-> c.slug, version |-> version,
              cpe |-> IF c.type = "plugin"
                      THEN GeneratePluginCpe(c.slug, version,
                                             GetPluginVendor(c.slug, c.configVendor))
                      ELSE GenerateThemeCpe(c.slug, version, <<>>),
              confidence |-> IF c.origin = "wp-cli" THEN 100 ELSE 85]

CodecInit ==
    /\ \/ \E c \in CodecInputs :
            codec = [pc |-> "input", input |-> c, raw |-> <<>>, comp |-> NoComponent,
                     parsed |-> NoParse, rederived |-> <<>>]
       \/ \E r \in RawStrings :
            codec = [pc |-> "raw", input |-> <<>>, raw |-> r, comp |-> NoComponent,
                     parsed |-> NoParse, rederived |-> <<>>]
    /\ wpcli = <<>> /\ ssh = <<>> /\ fp = <<>> /\ vuln = <<>>
    /\ FetchIdle
    /\ SelectIdle
    /\ ScanIdle

\* the component is built and its cpe stored
BuildComponent ==
    /\ codec.pc = "input"
    /\ codec' = [codec EXCEPT !.pc = "built", !.comp = BuiltComponent(codec.input)]
    /\ UNCHANGED notCodec

\* parseCpe(component.cpe)
ParseStored ==
    /\ codec.pc = "built"
    /\ codec' = [codec EXCEPT !.pc = "parsed", !.parsed = ParseCpe(codec.comp.cpe)]
    /\ UNCHANGED notCodec

\* generateCpe(component)
Rederive ==
    /\ codec.pc = "parsed"
    /\ codec' = [codec EXCEPT !.pc = "done", !.rederived = GenerateCpe(codec.comp)]
    /\ UNCHANGED notCodec

\* parseCpe of an arbitrary string
ParseRaw ==
    /\ codec.pc = "raw"
    /\ codec' = [codec EXCEPT !.pc = "done", !.parsed = ParseCpe(codec.raw)]
    /\ UNCHANGED notCodec

CodecNext == BuildComponent \/ ParseStored \/ Rederive \/ ParseRaw

SpecCpe == CodecInit /\ [][CodecNext]_vars

(***************************************************************************)
(* Properties of the CPE functions                                         *)
(***************************************************************************)
HasSpecialChar(str) == \E i \in 1..Len(str) : str[i] \in SpecialChars

\* the vendor argument the component's cpe was generated with
BuiltVendor(c) ==
    IF c.type = "core" THEN WordPressWord
    ELSE IF c.type = "plugin" THEN GetPluginVendor(c.slug, c.configVendor)
    ELSE c.slug

\* C16: parseCpe of a generated CPE returns the normalised vendor, the normalised
\* product, the version unchanged and the target-software field, for every
\* vendor, product and version with backslash, *, ?, double quote or colon.
C16_RoundTrip ==
    (codec # <<>> /\ codec.pc \in {"parsed", "done"} /\ codec.input # <<>>
        /\ (HasSpecialChar(codec.comp.version) \/ HasSpecialChar(codec.input.slug))) =>
        /\ codec.parsed.matched
        /\ codec.parsed.vendor = NormalizeCpeField(BuiltVendor(codec.input))
        /\ codec.parsed.product = NormalizeCpeField(codec.input.slug)
        /\ codec.parsed.version = codec.comp.version
        /\ codec.parsed.targetSw =
              (IF codec.input.type = "core" THEN <<"*">> ELSE WordPressWord)

\* the version field of a generated CPE
VersionField(cpe) == Split(cpe, ":")[6]

C18_NullUnlessThirteenFields ==
    (codec # <<>> /\ codec.pc = "done" /\ codec.input = <<>>) =>
        (codec.parsed.matched => Len(Split(codec.raw, ":")) = 13)

\* C19: the stored cpe of a component equals generateCpe of the component.
C19_CpeRederivable ==
    (codec # <<>> /\ codec.pc = "done" /\ codec.input # <<>>) =>
        codec.comp.cpe = codec.rederived


(***************************************************************************)
(* parseAndConvert of wpcli.ts.  The input is a sequence of lines; a line  *)
(* is blank, not JSON at all, or one complete JSON value.                   *)
(***************************************************************************)
\* "blank"    whitespace only
\* "garbage"  not JSON
\* "badEntry" [1]: an array whose entry is not an object
\* "pluginsA" [{"name": "contact-form-7", "version": "6.4.2"}]
\* "pluginsB" [{"name": "jetpack"}]
\* "themes"   [{"stylesheet": "t", "name": "t", "version": "6.4.2"}]
\* "core"     {"version": "6.4.2"}
\* "combined" {"core": {"version": "6.4.2"}, "plugins": <pluginsA>, "themes": <themes>}
\* "scalar"   42: valid JSON, neither an array nor an object
LineKinds == {"blank", "garbage", "badEntry", "pluginsA", "pluginsB", "themes", "core",
              "combined", "scalar"}
ThemeSlug == <<"t">>

\* JSON.parse(line) returns
IsJson(kind) == kind \in {"badEntry", "pluginsA", "pluginsB", "themes", "core",
                          "combined", "scalar"}
\* Array.isArray(obj)
IsArray(kind) == kind \in {"badEntry", "pluginsA", "pluginsB", "themes"}
\* parsePluginList / parseThemeList throw 'Invalid ... entry at index'
ListThrows(kind) == kind = "badEntry"
\* typeof obj === 'object' && obj !== null, for a value that is not an array
IsObject(kind) == kind \in {"core", "combined"}

\* parsePluginList(obj): slug from name, version or 'unknown'
ParsePluginList(kind) ==
    IF kind \in {"pluginsA", "combined"}
    THEN <<[slug |-> SlugContactForm7, version |-> V642]>>
    ELSE IF kind = "pluginsB" THEN <<[slug |-> SlugJetpack, version |-> RecordVersion(NoVersion)]>>
    ELSE IF kind = "themes" THEN <<[slug |-> ThemeSlug, version |-> V642]>>
    ELSE <<>>

\* parseThemeList(obj)
ParseThemeList(kind) ==
    IF kind \in {"themes", "combined"}
    THEN <<[slug |-> ThemeSlug, version |-> V642]>> ELSE <<>>

RECURSIVE NonBlank(_, _)
\* input.trim().split('\n').filter(l => l.trim()); the lines from position k on
NonBlank(lines, k) ==
    IF k > Len(lines) THEN <<>>
    ELSE IF lines[k] = "blank" THEN NonBlank(lines, k + 1)
    ELSE <<lines[k]>> \o NonBlank(lines, k + 1)

\* JSON.parse(input) returns: the input is one JSON value between white space
WholeParses(lines) ==
    LET kept == NonBlank(lines, 1) IN Len(kept) = 1 /\ IsJson(kept[1])

NoCore == [version |-> NoVersion]
EmptyData == [core |-> NoCore, plugins |-> <<>>, themes |-> <<>>]
NoResult == [core |-> NoComponent, plugins |-> <<>>, themes |-> <<>>, errors |-> <<>>]

WpCliInputs == UNION {[1..n -> LineKinds] : n \in 1..MaxLines}

WpCliInit ==
    /\ \E lines \in WpCliInputs :
          wpcli = [pc |-> "start", lines |-> lines, kept |-> <<>>, i |-> 0,
                   data |-> EmptyData, errors |-> <<>>, result |-> NoResult,
                   thrown |-> ""]
    /\ codec = <<>> /\ ssh = <<>> /\ fp = <<>> /\ vuln = <<>>
    /\ FetchIdle
    /\ SelectIdle
    /\ ScanIdle

\* one iteration of the loop over the non-blank lines, and the return after the last
AfterLine(w) ==
    LET line == w.kept[w.i + 1]
        failed == ~IsJson(line) \/ ListThrows(line)
        next == [w EXCEPT !.i = @ + 1,
                          !.pc = IF w.i + 1 = Len(w.kept) THEN "parsed" ELSE "loop"]
    IN  IF failed
        THEN [next EXCEPT !.errors = Append(@, [line |-> w.i + 1, content |-> line])]
        ELSE [next EXCEPT
                 !.data = IF line = "themes"
                          THEN [@ EXCEPT !.themes = ParseThemeList(line)]
                          ELSE IF IsArray(line)
                          THEN [@ EXCEPT !.plugins = ParsePluginList(line)]
                          ELSE IF line = "core"
                          THEN [@ EXCEPT !.core = [version |-> V642]]
                          ELSE @]

\* the single-value formats: the input parsed as one JSON value
WholeInput(w, value) ==
    IF IsArray(value)
    THEN (IF ListThrows(value)
          THEN [w EXCEPT !.pc = "thrown", !.thrown = "Invalid plugin entry at index 0"]
          ELSE [w EXCEPT !.pc = "parsed", !.data.plugins = ParsePluginList(value)])
    ELSE IF IsObject(value)
    THEN [w EXCEPT !.pc = "parsed",
                   !.data = [core |-> IF value = "combined" THEN [version |-> V642]
                                      ELSE NoCore,
                             plugins |-> IF value = "combined"
                                         THEN ParsePluginList(value) ELSE <<>>,
                             themes |-> ParseThemeList(value)]]
    ELSE [w EXCEPT !.pc = "thrown", !.thrown = "Invalid WP-CLI input format"]

\* parseWpCliInput up to the loop: JSON.parse(input), the single-value formats,
\* 'Empty input'
StartParse ==
    /\ wpcli.pc = "start"
    /\ LET kept == NonBlank(wpcli.lines, 1)
       IN  wpcli' =
             IF WholeParses(wpcli.lines) THEN WholeInput(wpcli, kept[1])
             ELSE IF Len(kept) = 0
             THEN [wpcli EXCEPT !.pc = "thrown", !.thrown = "Empty input"]
             ELSE [wpcli EXCEPT !.pc = "loop", !.kept = kept]
    /\ UNCHANGED notWpCli

ParseLine ==
    /\ wpcli.pc = "loop"
    /\ wpcli' = AfterLine(wpcli)
    /\ UNCHANGED notWpCli

\* wpcliToDetectionResult
WpcliToDetectionResult(data) ==
    [core |-> IF data.core = NoCore THEN NoComponent
              ELSE BuiltComponent([origin |-> "wp-cli", type |-> "core",
                                   slug |-> WordPressWord, version |-> data.core.version,
                                   configVendor |-> <<>>]),
     plugins |-> [k \in 1..Len(data.plugins) |->
                    BuiltComponent([origin |-> "wp-cli", type |-> "plugin",
                                    slug |-> data.plugins[k].slug,
                                    version |-> data.plugins[k].version,
                                    configVendor |-> <<>>])],
     themes |-> [k \in 1..Len(data.themes) |->
                    BuiltComponent([origin |-> "wp-cli", type |-> "theme",
                                    slug |-> data.themes[k].slug,
                                    version |-> data.themes[k].version,
                                    configVendor |-> <<>>])],
     errors |-> <<>>]

\* parseAndConvert after parseWpCliInput returned: conversion, then one entry
\* `Line ${err.line}: ... (content: ${err.content})` per parse error
Convert ==
    /\ wpcli.pc = "parsed"
    /\ wpcli' = [wpcli EXCEPT !.pc = "done",
                              !.result = [WpcliToDetectionResult(wpcli.data)
                                            EXCEPT !.errors = wpcli.errors]]
    /\ UNCHANGED notWpCli

WpCliNext == StartParse \/ ParseLine \/ Convert

SpecWpCli == WpCliInit /\ [][WpCliNext]_vars

(***************************************************************************)
(* Properties of parseAndConvert                                           *)
(***************************************************************************)
\* the input took the newline-delimited path and parseAndConvert returned
NdjsonDone == wpcli # <<>> /\ wpcli.pc = "done" /\ ~WholeParses(wpcli.lines)

\* positions in the input (1-based) of the lines that fail to parse
FailingLines(lines) ==
    {k \in 1..Len(lines) : lines[k] # "blank" /\ (~IsJson(lines[k]) \/ ListThrows(lines[k]))}

\* what sort of record a valid line carries
SortOf(kind) ==
    IF kind = "core" THEN "core"
    ELSE IF kind = "themes" THEN "themes"
    ELSE IF kind \in {"pluginsA", "pluginsB"} THEN "plugins"
    ELSE "none"

\* the components of the result that come from a line of this kind
ShowsLine(res, kind) ==
    IF kind = "core" THEN res.core.type = "core"
    ELSE IF kind = "themes"
    THEN \E k \in 1..Len(res.themes) : res.themes[k].slug = ThemeSlug
    ELSE \E k \in 1..Len(res.plugins) :
            res.plugins[k].slug = ParsePluginList(kind)[1].slug

\* C20: for newline-delimited input, result.errors has exactly one entry per
\* line that fails to parse, carrying that line's 1-based number in the input,
\* and the records of every valid line that no later line of the same sort
\* replaces are in the result, also when they follow a failing line.
C20_LineErrors ==
    NdjsonDone =>
        LET lines == wpcli.lines
            errs == wpcli.result.errors
        IN  /\ Len(errs) = Cardinality(FailingLines(lines))
            /\ {errs[k].line : k \in 1..Len(errs)} = FailingLines(lines)
            /\ \A k \in 1..Len(lines) :
                  (/\ lines[k] \in {"pluginsA", "pluginsB", "themes", "core"}
                   /\ \A j \in (k + 1)..Len(lines) :
                         j \in FailingLines(lines) \/ lines[j] = "blank"
                            \/ SortOf(lines[j]) # SortOf(lines[k]))
                     => ShowsLine(wpcli.result, lines[k])

\* the input as a whole is structurally invalid: empty or white space only, one
\* malformed JSON document, or one JSON value that is neither array nor object
StructurallyInvalid(lines) ==
    LET kept == NonBlank(lines, 1)
    IN  Len(kept) = 0 \/ (Len(kept) = 1 /\ kept[1] \in {"garbage", "scalar"})

\* C21: once parseWpCliInput has looked at a structurally invalid input it has
\* thrown an error with a message, and it never returns data or errors for it.
C21_InvalidInputThrows ==
    (wpcli # <<>> /\ wpcli.pc # "start" /\ StructurallyInvalid(wpcli.lines))
        => wpcli.pc = "thrown" /\ wpcli.thrown # ""

\* C27: in newline-delimited input the records of every array line are in the
\* result whatever lines follow, and a line holding {core, plugins, themes}
\* contributes the core, the plugins and the themes it contributes as whole input.
C27_LinesAccumulate ==
    NdjsonDone =>
        \A k \in 1..Len(wpcli.lines) :
            LET line == wpcli.lines[k]
                alone == WpcliToDetectionResult(WholeInput(wpcli, line).data)
            IN  /\ line \in {"pluginsA", "pluginsB", "themes"}
                    => ShowsLine(wpcli.result, line)
                /\ line = "combined"
                    => /\ wpcli.result.core = alone.core
                       /\ \A j \in 1..Len(alone.plugins) :
                             \E m \in 1..Len(wpcli.result.plugins) :
                                wpcli.result.plugins[m] = alone.plugins[j]
                       /\ \A j \in 1..Len(alone.themes) :
                             \E m \in 1..Len(wpcli.result.themes) :
                                wpcli.result.themes[m] = alone.themes[j]

(***************************************************************************)
(* scanViaSsh of ssh.ts: findWpCli, findWpPath, the WP-CLI commands, and    *)
(* the conversion of their output.  Every sshExec is one step whose         *)
(* outcome (output or SshError) the remote side chooses.                    *)
(***************************************************************************)
\* the texts of the remote commands
CdText ==
    <<"c", "d", " ">>
AndText ==
    <<" ", "&", "&", " ">>
VersionTail ==
    <<" ", "-", "-", "v", "e", "r", "s", "i", "o", "n", " ", "2", ">", "/",
      "d", "e", "v", "/", "n", "u", "l", "l">>
WhichWpText ==
    <<"w", "h", "i", "c", "h", " ", "w", "p", " ", "2", ">", "/", "d", "e",
      "v", "/", "n", "u", "l", "l">>
LsText ==
    <<"l", "s", " ", "-", "d", " ">>
LsTail ==
    <<" ", "2", ">", "/", "d", "e", "v", "/", "n", "u", "l", "l", " ", "|",
      "|", " ", "t", "r", "u", "e">>
CoreVersionText ==
    <<"c", "o", "r", "e", " ", "v", "e", "r", "s", "i", "o", "n", " ", "2",
      ">", "/", "d", "e", "v", "/", "n", "u", "l", "l">>
SiteUrlText ==
    <<"o", "p", "t", "i", "o", "n", " ", "g", "e", "t", " ", "s", "i", "t",
      "e", "u", "r", "l", " ", "-", "-", "f", "o", "r", "m", "a", "t", "=",
      "j", "s", "o", "n", " ", "2", ">", "/", "d", "e", "v", "/", "n", "u",
      "l", "l">>
HomeText ==
    <<"o", "p", "t", "i", "o", "n", " ", "g", "e", "t", " ", "h", "o", "m",
      "e", " ", "-", "-", "f", "o", "r", "m", "a", "t", "=", "j", "s", "o",
      "n", " ", "2", ">", "/", "d", "e", "v", "/", "n", "u", "l", "l">>
MultisiteText ==
    <<"c", "o", "n", "f", "i", "g", " ", "g", "e", "t", " ", "M", "U", "L",
      "T", "I", "S", "I", "T", "E", " ", "-", "-", "f", "o", "r", "m", "a",
      "t", "=", "j", "s", "o", "n", " ", "2", ">", "/", "d", "e", "v", "/",
      "n", "u", "l", "l", " ", "|", "|", " ", "e", "c", "h", "o", " ", "\"",
      "f", "a", "l", "s", "e", "\"">>
PluginListText ==
    <<"p", "l", "u", "g", "i", "n", " ", "l", "i", "s", "t", " ", "-", "-",
      "f", "o", "r", "m", "a", "t", "=", "j", "s", "o", "n", " ", "2", ">",
      "/", "d", "e", "v", "/", "n", "u", "l", "l">>
ThemeListText ==
    <<"t", "h", "e", "m", "e", " ", "l", "i", "s", "t", " ", "-", "-", "f",
      "o", "r", "m", "a", "t", "=", "j", "s", "o", "n", " ", "2", ">", "/",
      "d", "e", "v", "/", "n", "u", "l", "l">>

\* the binary names findWpCli tries after config.wpCli
DefaultWpCliPaths ==
    <<<<"w", "p">>,
      <<"/", "u", "s", "r", "/", "l", "o", "c", "a", "l", "/", "b", "i", "n", "/", "w", "p">>,
      <<"/", "u", "s", "r", "/", "b", "i", "n", "/", "w", "p">>>>

\* COMMON_WP_PATHS
COMMON_WP_PATHS ==
    <<<<"/", "v", "a", "r", "/", "w", "w", "w", "/", "h", "t", "m", "l">>,
      <<"/", "v", "a", "r", "/", "w", "w", "w", "/", "w", "o", "r", "d", "p", "r", "e", "s", "s">>,
      <<"/", "v", "a", "r", "/", "w", "w", "w", "/", "p", "u", "b", "l", "i", "c", "_", "h", "t", "m", "l">>,
      <<"/", "v", "a", "r", "/", "w", "w", "w", "/", "h", "t", "d", "o", "c", "s">>,
      <<"/", "h", "o", "m", "e", "/", "*", "/", "p", "u", "b", "l", "i", "c", "_", "h", "t", "m", "l">>,
      <<"/", "h", "o", "m", "e", "/", "*", "/", "w", "w", "w">>,
      <<"/", "s", "r", "v", "/", "w", "w", "w", "/", "h", "t", "d", "o", "c", "s">>,
      <<"/", "u", "s", "r", "/", "s", "h", "a", "r", "e", "/", "n", "g", "i", "n", "x", "/", "h", "t", "m", "l">>>>
DefaultWpPath ==
    <<"/", "v", "a", "r", "/", "w", "w", "w", "/", "h", "t", "m", "l">>

\* mutant: the value is wrapped in single quotes, embedded quotes are left alone
ShellEscapeWrapOnly(value) == <<"'">> \o value \o <<"'">>

\* shellEscape
ShellEscape(value) ==
    <<"'">> \o ReplaceAll(value, "'", <<"'", "\"", "'", "\"", "'">>) \o <<"'">>

\* buildWpCliCommand
BuildWpCliCommand(wpPath, wpCli, command) ==
    CdText \o ShellEscape(wpPath) \o AndText \o ShellEscape(wpCli) \o <<" ">> \o command

\* values a user can give as --wp-cli / path, and paths the remote host can print
UserValues == {<<"/", "w", " ", "p">>, <<"o", "'", "r">>, <<";", "$", "&">>,
               <<"\\", "*", "|">>}
RemoteValues == {<<"a", " ", "b">>, <<"'", "\"", "$">>}
\* output of ls -d pattern: the lines after trim().split('\n').filter(Boolean)
LsOutputs == {<<>>} \cup {<<r>> : r \in RemoteValues}
                \cup {<<<<"a", " ", "b">>, <<"'", "\"", "$">>>>}
\* output of plugin list / theme list
JsonOutputs == {"list", "empty", "invalid", "object"}
\* types of the SshError an sshExec rejects with
ExecErrors == {"TIMEOUT", "COMMAND_FAILED"}

SshConfigs == [wpPath : UserValues \cup {<<>>, DefaultWpPath}, wpCli : UserValues \cup {<<>>}]

NoCommand == [form |-> "none", text |-> <<>>, values |-> <<>>, tail |-> <<>>]
\* ${shellEscape(path)} --version 2>/dev/null
ProbeCommand(path) ==
    [form |-> "probe", text |-> ShellEscape(path) \o VersionTail,
     values |-> <<path>>, tail |-> VersionTail]
\* buildWpCliCommand(wpPath, wpCli, command)
WpCommand(wpPath, wpCli, command) ==
    [form |-> "wp", text |-> BuildWpCliCommand(wpPath, wpCli, command),
     values |-> <<wpPath, wpCli>>, tail |-> command]
\* a command without values
PlainCommand(text) == [form |-> "plain", text |-> text, values |-> <<>>, tail |-> text]

NoSshResult == [core |-> NoComponent, plugins |-> <<>>, themes |-> <<>>, errors |-> <<>>]

SshInit ==
    /\ \E c \in SshConfigs :
          ssh = [pc |-> "cli", config |-> c, cmd |-> NoCommand, k |-> 1,
                 expanded |-> <<>>, wpCli |-> <<>>, wpPath |-> <<>>, core |-> NoVersion,
                 site |-> "none", pluginJson |-> "none", themeJson |-> "none",
                 errors |-> <<>>, failed |-> "none", out |-> NoSshResult]
    /\ codec = <<>> /\ wpcli = <<>> /\ fp = <<>> /\ vuln = <<>>
    /\ FetchIdle
    /\ SelectIdle
    /\ ScanIdle

\* findWpCli: paths, with config.wpCli first when given
CliPaths(config) ==
    (IF config.wpCli # <<>> THEN <<config.wpCli>> ELSE <<>>) \o DefaultWpCliPaths

\* the catch of scanViaSsh for an SshError: one entry [type] message, result returned
Caught(w, step, type) ==
    [w EXCEPT !.pc = "returned", !.failed = step,
              !.errors = Append(@, "[" \o type \o "]"),
              !.out = [NoSshResult EXCEPT !.errors = Append(w.errors, "[" \o type \o "]")]]

\* findWpPath gives up on patterns from k on: the next pattern, or the default
NextPattern(w, k) ==
    IF k <= Len(COMMON_WP_PATHS) THEN [w EXCEPT !.pc = "ls", !.k = k, !.expanded = <<>>]
    ELSE [w EXCEPT !.pc = "core", !.expanded = <<>>,
                   !.wpPath = IF w.config.wpPath # <<>> THEN w.config.wpPath
                              ELSE DefaultWpPath]

\* findWpCli returned wpCli; findWpPath starts
EnterFindWpPath(w, bin) ==
    LET found == [w EXCEPT !.wpCli = bin]
    IN  IF w.config.wpPath # <<>> /\ w.config.wpPath # DefaultWpPath
        THEN [found EXCEPT !.pc = "path0"]
        ELSE NextPattern(found, 1)

\* findWpCli: path --version for the next path of the list
ProbeWpCli ==
    /\ ssh.pc = "cli"
    /\ LET path == CliPaths(ssh.config)[ssh.k]
           sent == [ssh EXCEPT !.cmd = ProbeCommand(path)]
       IN  \/ ssh' = EnterFindWpPath(sent, path)
           \/ ssh' = IF ssh.k < Len(CliPaths(ssh.config))
                     THEN [sent EXCEPT !.k = @ + 1]
                     ELSE [sent EXCEPT !.pc = "which"]
    /\ UNCHANGED notSsh

\* findWpCli: which wp as fallback, WP_CLI_NOT_FOUND when it gives nothing
WhichWp ==
    /\ ssh.pc = "which"
    /\ LET sent == [ssh EXCEPT !.cmd = PlainCommand(WhichWpText)]
       IN  \/ \E out \in RemoteValues : ssh' = EnterFindWpPath(sent, out)
           \/ ssh' = Caught(sent, "findWpCli", "WP_CLI_NOT_FOUND")
    /\ UNCHANGED notSsh

\* findWpPath: config.wpPath is verified with core version
VerifyConfigPath ==
    /\ ssh.pc = "path0"
    /\ LET sent == [ssh EXCEPT !.cmd = WpCommand(ssh.config.wpPath, ssh.wpCli,
                                                 CoreVersionText)]
       IN  \/ ssh' = [sent EXCEPT !.pc = "core", !.wpPath = ssh.config.wpPath]
           \/ ssh' = NextPattern(sent, 1)
    /\ UNCHANGED notSsh

\* findWpPath: ls -d pattern expands the next common path
ListPattern ==
    /\ ssh.pc = "ls"
    /\ LET sent == [ssh EXCEPT !.cmd = PlainCommand(LsText \o COMMON_WP_PATHS[ssh.k]
                                                        \o LsTail)]
       IN  \/ \E out \in LsOutputs :
                ssh' = IF out = <<>> THEN NextPattern(sent, ssh.k + 1)
                       ELSE [sent EXCEPT !.pc = "try", !.expanded = out]
           \/ ssh' = NextPattern(sent, ssh.k + 1)
    /\ UNCHANGED notSsh

\* findWpPath: core version in the next expanded path
TryPath ==
    /\ ssh.pc = "try"
    /\ LET path == Head(ssh.expanded)
           sent == [ssh EXCEPT !.cmd = WpCommand(path, ssh.wpCli, CoreVersionText)]
       IN  \/ ssh' = [sent EXCEPT !.pc = "core", !.wpPath = path, !.expanded = <<>>]
           \/ ssh' = IF Len(ssh.expanded) > 1
                     THEN [sent EXCEPT !.expanded = Tail(@)]
                     ELSE NextPattern(sent, ssh.k + 1)
    /\ UNCHANGED notSsh

\* scanViaSsh: core version
CoreVersion ==
    /\ ssh.pc = "core"
    /\ LET sent == [ssh EXCEPT !.cmd = WpCommand(ssh.wpPath, ssh.wpCli, CoreVersionText)]
       IN  \/ ssh' = [sent EXCEPT !.pc = "site", !.k = 1, !.core = V642]
           \/ \E type \in ExecErrors : ssh' = Caught(sent, "core", type)
    /\ UNCHANGED notSsh

SiteInfoTexts == <<SiteUrlText, HomeText, MultisiteText>>

\* mutant: a failing site-info command ends the scan like a failing core command
SiteInfoNotOptional ==
    /\ ssh.pc = "site"
    /\ LET sent == [ssh EXCEPT !.cmd = WpCommand(ssh.wpPath, ssh.wpCli,
                                                 SiteInfoTexts[ssh.k])]
       IN  \/ /\ ssh.k < Len(SiteInfoTexts)
              /\ ssh' = [sent EXCEPT !.k = @ + 1]
           \/ /\ ssh.k = Len(SiteInfoTexts)
              /\ ssh' = [sent EXCEPT !.pc = "plugins", !.site = "ok"]
           \/ \E type \in ExecErrors :
                ssh' = [Caught(sent, "none", type) EXCEPT !.site = "failed"]
    /\ UNCHANGED notSsh

\* scanViaSsh: the three optional site-info commands and the JSON.parse of their
\* output, inside their own try
SiteInfo ==
    /\ ssh.pc = "site"
    /\ LET sent == [ssh EXCEPT !.cmd = WpCommand(ssh.wpPath, ssh.wpCli,
                                                 SiteInfoTexts[ssh.k])]
       IN  \/ /\ ssh.k < Len(SiteInfoTexts)
              /\ ssh' = [sent EXCEPT !.k = @ + 1]
           \/ /\ ssh.k = Len(SiteInfoTexts)
              /\ \E parses \in BOOLEAN :
                    ssh' = [sent EXCEPT !.pc = "plugins",
                                        !.site = IF parses THEN "ok" ELSE "failed"]
           \/ ssh' = [sent EXCEPT !.pc = "plugins", !.site = "failed"]
    /\ UNCHANGED notSsh

\* scanViaSsh: plugin list
PluginList ==
    /\ ssh.pc = "plugins"
    /\ LET sent == [ssh EXCEPT !.cmd = WpCommand(ssh.wpPath, ssh.wpCli, PluginListText)]
       IN  \/ \E out \in JsonOutputs : ssh' = [sent EXCEPT !.pc = "themes", !.pluginJson = out]
           \/ \E type \in ExecErrors : ssh' = Caught(sent, "plugins", type)
    /\ UNCHANGED notSsh

\* scanViaSsh: theme list
ThemeList ==
    /\ ssh.pc = "themes"
    /\ LET sent == [ssh EXCEPT !.cmd = WpCommand(ssh.wpPath, ssh.wpCli, ThemeListText)]
       IN  \/ \E out \in JsonOutputs : ssh' = [sent EXCEPT !.pc = "combine", !.themeJson = out]
           \/ \E type \in ExecErrors : ssh' = Caught(sent, "themes", type)
    /\ UNCHANGED notSsh

\* scanViaSsh after the last command: JSON.parse of both lists (a failure is
\* pushed to result.errors), wpcliToDetectionResult(combined), return parsed; a
\* list output that is an object is not iterable, which the outer catch handles
Combined(w) ==
    LET errors == w.errors
                    \o (IF w.pluginJson = "invalid" THEN <<"Failed to parse plugin list">>
                        ELSE <<>>)
                    \o (IF w.themeJson = "invalid" THEN <<"Failed to parse theme list">>
                        ELSE <<>>)
        data == [core |-> [version |-> w.core],
                 plugins |-> IF w.pluginJson = "list" THEN ParsePluginList("pluginsA") ELSE <<>>,
                 themes |-> IF w.themeJson = "list" THEN ParseThemeList("themes") ELSE <<>>]
    IN  IF w.pluginJson = "object" \/ w.themeJson = "object"
        THEN [w EXCEPT !.pc = "returned", !.errors = Append(errors, "TypeError"),
                       !.out = [NoSshResult EXCEPT !.errors = Append(errors, "TypeError")]]
        ELSE [w EXCEPT !.pc = "returned", !.errors = errors,
                       !.out = WpcliToDetectionResult(data)]

Combine ==
    /\ ssh.pc = "combine"
    /\ ssh' = Combined(ssh)
    /\ UNCHANGED notSsh

SshNext ==
    \/ ProbeWpCli \/ WhichWp \/ VerifyConfigPath \/ ListPattern \/ TryPath
    \/ CoreVersion \/ SiteInfo \/ PluginList \/ ThemeList \/ Combine

SpecSsh == SshInit /\ [][SshNext]_vars

(***************************************************************************)
(* How a POSIX shell reads a command line: quoting, word splitting,        *)
(* operators and expansions                                                 *)
(***************************************************************************)
ShellOperators == {";", "&", "|", "<", ">", "(", ")"}
\* unquoted characters that start an expansion or a pattern
ShellExpanders == {"$", "*", "?"}
Expansion == "<expansion>"
Word(text) == [kind |-> "word", text |-> text]

\* the reader before the first character: quoting state, the word under
\* construction, whether a word has been started, the tokens read
ShellStart == [mode |-> "plain", word |-> <<>>, open |-> FALSE, toks |-> <<>>]

\* the tokens with the word under construction ended
Closed(st) == IF st.open THEN Append(st.toks, Word(st.word)) ELSE st.toks

\* the reader takes one character
ShellStep(st, c) ==
    LET more(ch) == [st EXCEPT !.word = Append(@, ch), !.open = TRUE]
        to(m) == [st EXCEPT !.mode = m, !.open = TRUE]
    IN  CASE st.mode = "single" ->
               IF c = "'" THEN to("plain") ELSE more(c)
          [] st.mode = "double" ->
               IF c = "\"" THEN to("plain")
               ELSE IF c = "\\" THEN to("double-escape")
               ELSE IF c = "$" THEN more(Expansion)
               ELSE more(c)
          [] st.mode = "double-escape" ->
               IF c \in {"$", "\"", "\\"} THEN [more(c) EXCEPT !.mode = "double"]
               ELSE [st EXCEPT !.word = @ \o <<"\\", c>>, !.mode = "double"]
          [] st.mode = "escape" -> [more(c) EXCEPT !.mode = "plain"]
          [] OTHER ->
               IF c = " " THEN [st EXCEPT !.word = <<>>, !.open = FALSE, !.toks = Closed(st)]
               ELSE IF c = "'" THEN to("single")
               ELSE IF c = "\"" THEN to("double")
               ELSE IF c = "\\" THEN to("escape")
               ELSE IF c \in ShellOperators
               THEN [st EXCEPT !.word = <<>>, !.open = FALSE,
                               !.toks = Append(Closed(st),
                                               [kind |-> "operator", text |-> <<c>>])]
               ELSE IF c \in ShellExpanders THEN more(Expansion)
               ELSE more(c)

RECURSIVE ShellScan(_, _, _, _)
\* the reader after the characters lo..hi of str
ShellScan(st, str, lo, hi) ==
    IF lo > hi THEN st
    ELSE IF lo = hi THEN ShellStep(st, str[lo])
    ELSE LET mid == (lo + hi) \div 2
             left == ShellScan(st, str, lo, mid)
         \* the first half is read before the second half is looked at
         IN  IF left.mode = "none" THEN left ELSE ShellScan(left, str, mid + 1, hi)

\* the tokens of a command line; a quote left open is reported as a token
ShellRead(str) ==
    LET st == ShellScan(ShellStart, str, 1, Len(str))
    IN  IF st.mode = "plain" THEN Closed(st)
        ELSE Append(st.toks, [kind |-> "unterminated", text |-> st.word])

(***************************************************************************)
(* Properties of scanViaSsh                                                *)
(***************************************************************************)
\* what the shell has to read in a command: the fixed text as written, and
\* each value put into it as one word equal to the value
ExpectedTokens(cmd) ==
    IF cmd.form = "probe" THEN <<Word(cmd.values[1])>> \o ShellRead(cmd.tail)
    ELSE IF cmd.form = "wp"
    THEN ShellRead(CdText) \o <<Word(cmd.values[1])>> \o ShellRead(AndText)
            \o <<Word(cmd.values[2])>> \o ShellRead(cmd.tail)
    ELSE ShellRead(cmd.text)

\* C22: in every remote command of findWpCli, findWpPath and scanViaSsh the
\* shell reads each path or binary name (user-given or printed by the remote
\* host) as exactly one word equal to the original value, and the rest of the
\* command as written.
C22_ValuesReadBackAsOneWord ==
    ssh # <<>> => ShellRead(ssh.cmd.text) = ExpectedTokens(ssh.cmd)

\* a command whose path has quotes and whose binary name has a space was sent
C22_Witness ==
    /\ ssh # <<>>
    /\ ssh.cmd.form = "wp"
    /\ ssh.cmd.values = <<<<"'", "\"", "$">>, <<"/", "w", " ", "p">>>>
    /\ ssh.cmd.tail = PluginListText

\* C29: when every command succeeded and the plugin-list (theme-list) output
\* is not valid JSON, the returned result has the core and the other list and
\* its errors contain the Failed to parse plugin (theme) list entry.
C29_ParseErrorReturned ==
    (ssh # <<>> /\ ssh.pc = "returned" /\ ssh.failed = "none")
        => /\ (ssh.pluginJson = "invalid" /\ ssh.themeJson = "list")
                => /\ ssh.out.core.type = "core"
                   /\ Len(ssh.out.themes) = 1
                   /\ Contains(ssh.out.errors, "Failed to parse plugin list")
           /\ (ssh.themeJson = "invalid" /\ ssh.pluginJson = "list")
                => /\ ssh.out.core.type = "core"
                   /\ Len(ssh.out.plugins) = 1
                   /\ Contains(ssh.out.errors, "Failed to parse theme list")

EmojiVersions67 ==
    <<<<"6", ".", "7">>, <<"6", ".", "7", ".", "1">>>>
EmojiVersions66 ==
    <<<<"6", ".", "6">>, <<"6", ".", "6", ".", "1">>,
      <<"6", ".", "6", ".", "2">>>>
EmojiVersions65 ==
    <<<<"6", ".", "5">>, <<"6", ".", "5", ".", "1">>,
      <<"6", ".", "5", ".", "2">>, <<"6", ".", "5", ".", "3">>,
      <<"6", ".", "5", ".", "4">>, <<"6", ".", "5", ".", "5">>>>
EmojiVersions64 ==
    <<<<"6", ".", "4">>, <<"6", ".", "4", ".", "1">>,
      <<"6", ".", "4", ".", "2">>, <<"6", ".", "4", ".", "3">>>>
EmbedVersions ==
    <<<<"6", ".", "5">>, <<"6", ".", "5", ".", "1">>,
      <<"6", ".", "5", ".", "2">>, <<"6", ".", "5", ".", "3">>,
      <<"6", ".", "5", ".", "4">>, <<"6", ".", "5", ".", "5">>,
      <<"6", ".", "6">>, <<"6", ".", "6", ".", "1">>,
      <<"6", ".", "6", ".", "2">>, <<"6", ".", "7">>,
      <<"6", ".", "7", ".", "1">>>>

\* hashLookup restricted to each path: the version sets a digest of that path's
\* script can map to (jquery-migrate, wp-emoji-release, wp-embed, jquery)
PathVersionSets ==
    <<{FiveVersions},
      {EmojiVersions67, EmojiVersions66, EmojiVersions65, EmojiVersions64},
      {EmbedVersions},
      {}>>
\* what extractVersionFromJsComment finds; NoVersion for null
CommentVersions == {NoVersion, V67, <<"6", ".", "5">>}

\* a fetched script: the versions its digest maps to (<<>> when the digest is
\* unknown or nothing was fetched) and the version in its comments
Scripts(path) ==
    [versions : PathVersionSets[path] \cup {<<>>}, comment : CommentVersions]

\* the entries one path adds to matches: the hash match, then the comment match
ScriptMatches(script) ==
    (IF script.versions # <<>> THEN <<[versions |-> script.versions, kind |-> "hash"]>>
     ELSE <<>>)
    \o (IF script.comment # NoVersion
        THEN <<[versions |-> <<script.comment>>, kind |-> "comment"]>> ELSE <<>>)

FpInit ==
    /\ \E scripts \in [1..NumCoreJsPaths -> UNION {Scripts(q) : q \in 1..NumCoreJsPaths}] :
          /\ \A q \in 1..NumCoreJsPaths : scripts[q] \in Scripts(q)
          /\ fp = [pc |-> "loop", scripts |-> scripts, k |-> 1, matches |-> <<>>,
                   res |-> [version |-> NoVersion, confidence |-> 0]]
    /\ codec = <<>> /\ wpcli = <<>> /\ ssh = <<>> /\ vuln = <<>>
    /\ FetchIdle
    /\ SelectIdle
    /\ ScanIdle

\* one iteration of the loop over CORE_JS_PATHS
FetchCoreJs ==
    /\ fp.pc = "loop"
    /\ fp.k <= NumCoreJsPaths
    /\ fp' = [fp EXCEPT !.matches = @ \o ScriptMatches(fp.scripts[fp.k]), !.k = @ + 1]
    /\ UNCHANGED notFp

\* after the loop: best version and confidence
DecideVersion ==
    /\ fp.pc = "loop"
    /\ fp.k > NumCoreJsPaths
    /\ fp' = [fp EXCEPT !.pc = "done", !.res = FingerprintResult(fp.matches)]
    /\ UNCHANGED notFp

FpNext == FetchCoreJs \/ DecideVersion

SpecFingerprint == FpInit /\ [][FpNext]_vars

(***************************************************************************)
(* Properties of detectCoreByJsFingerprint                                 *)
(***************************************************************************)
\* confidence before the specificity bonus
BaseConfidence(matches) == 50 + Min(Len(matches) * 10, 25)

\* C23: the specificity bonus shows in the confidence only when every hash set
\* that matched the chosen version has at most 3 versions; one digest that maps
\* to 5 versions and no comment version gives 60; and when every match has
\* more than 3 versions the confidence is the one without the bonus.
C23_BonusOnlyForSmallSets ==
    (fp # <<>> /\ fp.pc = "done" /\ fp.matches # <<>>)
        => LET ms == fp.matches
               withBonus == fp.res.confidence > BaseConfidence(ms)
           IN  /\ withBonus =>
                    \A k \in 1..Len(ms) :
                       (ms[k].kind = "hash" /\ Contains(ms[k].versions, fp.res.version))
                          => Len(ms[k].versions) <= 3
               /\ ms = <<HashMatch>> => fp.res.confidence = 60
               /\ (\A k \in 1..Len(ms) : Len(ms[k].versions) > 3) => ~withBonus

(***************************************************************************)
(* The exit code main derives from the result of scanRemote                 *)
(***************************************************************************)
EXIT_SUCCESS == 0
EXIT_NOT_DETECTED == 1
EXIT_ERROR == 2

\* the entry main pushes to results for one DetectionResult
ResultSummary(res) ==
    [hasComponents |-> res.core # NoComponent \/ Len(res.plugins) > 0 \/ Len(res.themes) > 0,
     hasErrors |-> Len(res.errors) > 0]

\* main: anyComponents, anyErrors and the process.exit that follows
ExitCode(results) ==
    LET anyComponents == \E k \in 1..Len(results) : results[k].hasComponents
        anyErrors == \E k \in 1..Len(results) : results[k].hasErrors
    IN  IF anyErrors /\ ~anyComponents THEN EXIT_ERROR
        ELSE IF ~anyComponents THEN EXIT_NOT_DETECTED
        ELSE EXIT_SUCCESS

\* wpvet detect <url>: the exit code once scanRemote has settled; a rejection
\* lands in the catch of main
ScanExitCode ==
    IF scanResult.settled = "rejected" THEN EXIT_ERROR
    ELSE ExitCode(<<ResultSummary(scanResult)>>)

\* C24: once a remote scan has settled, the exit code is 0 when a component was
\* detected, 1 when the site answered and WordPress was not detected at the
\* URL, and 2 only when an error occurred (the scan rejected, core detection
\* failed, or no candidate URL gave a WordPress page).
C24_ExitCodes ==
    scanResult.settled \in {"resolved", "rejected"} =>
        /\ (scanResult.settled = "resolved" /\ ResultSummary(scanResult).hasComponents)
              => ScanExitCode = EXIT_SUCCESS
        /\ (/\ scanResult.settled = "resolved"
            /\ Contains(scanResult.errors, "WordPress not detected at this URL"))
              => ScanExitCode = EXIT_NOT_DETECTED
        /\ ScanExitCode = EXIT_ERROR
              => \/ scanResult.settled = "rejected"
                 \/ Len(scanResult.errors) > 0

(***************************************************************************)
(* runPluginVulnChecks of plugin-vulns.ts                                   *)
(***************************************************************************)
PLUGIN_VULN_CHECKS ==
    <<[pluginSlug |->
          <<"c", "o", "n", "t", "a", "c", "t", "-", "f", "o", "r", "m", "-", "7">>,
       vulnId |-> "cf7-unrestricted-upload", severity |-> "high"],
      [pluginSlug |->
          <<"w", "o", "o", "c", "o", "m", "m", "e", "r", "c", "e">>,
       vulnId |-> "woo-api-exposure", severity |-> "high"],
      [pluginSlug |->
          <<"w", "o", "o", "c", "o", "m", "m", "e", "r", "c", "e">>,
       vulnId |-> "woo-debug-log", severity |-> "medium"],
      [pluginSlug |->
          <<"e", "l", "e", "m", "e", "n", "t", "o", "r">>,
       vulnId |-> "elementor-xss-vuln", severity |-> "medium"],
      [pluginSlug |->
          <<"a", "l", "l", "-", "i", "n", "-", "o", "n", "e", "-", "s", "e", "o", "-", "p", "a", "c", "k">>,
       vulnId |-> "aioseo-auth-bypass", severity |-> "medium"],
      [pluginSlug |->
          <<"w", "p", "f", "o", "r", "m", "s", "-", "l", "i", "t", "e">>,
       vulnId |-> "wpforms-upload-exposure", severity |-> "medium"],
      [pluginSlug |->
          <<"u", "p", "d", "r", "a", "f", "t", "p", "l", "u", "s">>,
       vulnId |-> "updraft-backup-exposure", severity |-> "critical"],
      [pluginSlug |->
          <<"w", "o", "r", "d", "f", "e", "n", "c", "e">>,
       vulnId |-> "wordfence-log-exposure", severity |-> "high"],
      [pluginSlug |->
          <<"w", "o", "r", "d", "p", "r", "e", "s", "s", "-", "s", "e", "o">>,
       vulnId |-> "yoast-sitemap-info", severity |-> "info"]>>

\* slugs of detected plugins: plugins that have checks, plugins whose slug
\* contains or is contained in the slug of a check, a plugin without checks
DetectableSlugs ==
    {<<"c", "o", "n", "t", "a", "c", "t", "-", "f", "o", "r", "m", "-", "7">>,
     <<"w", "o", "o", "c", "o", "m", "m", "e", "r", "c", "e">>,
     <<"e", "l", "e", "m", "e", "n", "t", "o", "r", "-", "p", "r", "o">>,
     <<"w", "p", "f", "o", "r", "m", "s">>,
     <<"W", "o", "r", "d", "f", "e", "n", "c", "e">>,
     <<"j", "e", "t", "p", "a", "c", "k">>}

\* String.prototype.includes
Includes(str, sub) ==
    \E i \in 0..(Len(str) - Len(sub)) : SubSeq(str, i + 1, i + Len(sub)) = sub

\* String.prototype.toLowerCase
ToLowerCase(str) == [i \in 1..Len(str) |-> LowerChar(str[i])]

\* detectedSlugs
DetectedSlugs(detected) == {ToLowerCase(slug) : slug \in detected}

\* the predicate of PLUGIN_VULN_CHECKS.filter
IsRelevant(check, detected) ==
    LET pluginSlug == ToLowerCase(check.pluginSlug)
    IN  \/ pluginSlug \in DetectedSlugs(detected)
        \/ \E slug \in DetectedSlugs(detected) :
              Includes(slug, pluginSlug) \/ Includes(pluginSlug, slug)

\* severityOrder
SeverityOrder(severity) ==
    CASE severity = "critical" -> 0
      [] severity = "high" -> 1
      [] severity = "medium" -> 2
      [] severity = "low" -> 3
      [] OTHER -> 4

RECURSIVE SortBySeverity(_, _)
\* results.sort by severityOrder, which keeps the order of equal severities:
\* the results of rank r and above, rank by rank
SortBySeverity(results, r) ==
    IF r > 4 THEN <<>>
    ELSE SelectSeq(results, LAMBDA x : SeverityOrder(x.severity) = r)
            \o SortBySeverity(results, r + 1)

RECURSIVE Findings(_, _)
\* the non-null entries of checkResults, in the order of the checks, from check c on
Findings(status, c) ==
    IF c > Len(PLUGIN_VULN_CHECKS) THEN <<>>
    ELSE (IF status[c] = "found"
          THEN <<[id |-> PLUGIN_VULN_CHECKS[c].vulnId,
                  severity |-> PLUGIN_VULN_CHECKS[c].severity]>>
          ELSE <<>>) \o Findings(status, c + 1)

VulnInit ==
    /\ \E detected \in SUBSET DetectableSlugs :
          /\ Cardinality(detected) <= MaxDetected
          /\ vuln = [pc |-> "start", detected |-> detected,
                     status |-> [c \in 1..Len(PLUGIN_VULN_CHECKS) |-> "skipped"],
                     results |-> <<>>]
    /\ codec = <<>> /\ wpcli = <<>> /\ ssh = <<>> /\ fp = <<>>
    /\ FetchIdle
    /\ SelectIdle
    /\ ScanIdle

\* relevantChecks is built and check.check is called for each of them
StartChecks ==
    /\ vuln.pc = "start"
    /\ vuln' = [vuln EXCEPT
                  !.pc = "checking",
                  !.status = [c \in 1..Len(PLUGIN_VULN_CHECKS) |->
                                IF IsRelevant(PLUGIN_VULN_CHECKS[c], vuln.detected)
                                THEN "running" ELSE "skipped"]]
    /\ UNCHANGED notVuln

\* one check settles: a finding when its endpoint answers with the pattern,
\* null when it does not or when the check throws
CheckSettles(c) ==
    /\ vuln.pc = "checking"
    /\ vuln.status[c] = "running"
    /\ \E outcome \in {"found", "null"} : vuln' = [vuln EXCEPT !.status[c] = outcome]
    /\ UNCHANGED notVuln

\* Promise.all has resolved: findings collected and sorted by severity
ReturnFindings ==
    /\ vuln.pc = "checking"
    /\ \A c \in 1..Len(PLUGIN_VULN_CHECKS) : vuln.status[c] # "running"
    /\ vuln' = [vuln EXCEPT !.pc = "done",
                            !.results = SortBySeverity(Findings(vuln.status, 1), 0)]
    /\ UNCHANGED notVuln

VulnNext ==
    \/ StartChecks
    \/ \E c \in 1..Len(PLUGIN_VULN_CHECKS) : CheckSettles(c)
    \/ ReturnFindings

SpecVuln == VulnInit /\ [][VulnNext]_vars

(***************************************************************************)
(* Properties of runPluginVulnChecks                                       *)
(***************************************************************************)
\* the plugin of the check is among the detected plugins
PluginDetected(c) == ToLowerCase(PLUGIN_VULN_CHECKS[c].pluginSlug) \in DetectedSlugs(vuln.detected)

\* C25: a check runs, and its finding is in the results, only when the plugin
\* the check belongs to is among the detected plugins.
C25_ChecksOnlyForDetectedPlugins ==
    vuln # <<>> =>
        /\ \A c \in 1..Len(PLUGIN_VULN_CHECKS) : vuln.status[c] # "skipped" => PluginDetected(c)
        /\ \A k \in 1..Len(vuln.results) :
              \E c \in 1..Len(PLUGIN_VULN_CHECKS) :
                 PLUGIN_VULN_CHECKS[c].vulnId = vuln.results[k].id /\ PluginDetected(c)

\* ---------------------------------------------------------------------------
\* detectWordPressCore, step 4 (remote.ts 300-317), checked on SpecScan

\* the evidence `later` is the evidence `earlier` with at most one js-fingerprint
\* tuple pushed after it
PushedFingerprint(earlier, later) ==
    \/ later = earlier
    \/ /\ Len(later) = Len(earlier) + 1
       /\ SubSeq(later, 1, Len(earlier)) = earlier
       /\ later[Len(later)].source = "js-fingerprint"

\* C26: the JS fingerprint matcher of detectWordPressCore runs only when
\* options.fingerprint is set and no source collected before it (meta generator,
\* ?ver= frequency, readme.html, wp-json) has a concrete version, so that no
\* fingerprint request is issued when one of them has; the matcher only ever
\* pushes one js-fingerprint tuple after the evidence collected so far, and when
\* every file fails to give a match that evidence is left as it was.
C26_FingerprintOnlyWithoutVersion ==
    [][/\ main'.pc = "coreJs"
            => scanOpts.fingerprint /\ ~HasPreciseVersion(main'.sources)
       /\ (main.pc \in {"coreWpJson", "coreWpJsonBody"} /\ main'.pc # main.pc
              /\ (~scanOpts.fingerprint \/ HasPreciseVersion(main'.sources)))
            => main'.pc # "coreJs" /\ main'.fpIdx = 0
       /\ main.pc = "coreJs" => PushedFingerprint(main.sources, main'.sources)
       /\ (main.pc = "coreJs" /\ main.matches = <<>> /\ CoreJsFile("none"))
            => main'.sources = main.sources]_vars

\* fingerprinting is enabled, an earlier source gave a concrete version and the
\* scan went on to the plugins without a fingerprint request
C26_Witness ==
    /\ scanOpts.fingerprint
    /\ HasPreciseVersion(main.sources)
    /\ main.pc = "plugins"
    /\ main.fpIdx = 0

\* ---------------------------------------------------------------------------
\* Progress of the limiter (remote.ts 25-45)

\* what the scheduling of the code gives: a continuation whose promise resolved
\* is run by the event loop (Resume, Release), every pending fetch() settles,
\* by the abort timer at the latest (AttemptEnds), and every backoff timer
\* fires (BackoffEnds); nothing obliges a caller to submit a call (Arrive)
\* the calls of SpecLimiter
LimiterCalls == 1..NumCalls

FetchFairness ==
    \A c \in LimiterCalls :
        /\ WF_vars(Resume(c))
        /\ WF_vars(\E o \in AttemptOutcomes : AttemptEnds(c, o))
        /\ WF_vars(BackoffEnds(c))
        /\ WF_vars(Release(c))

SpecLimiterFair == LimiterInit /\ [][FetchNext]_vars /\ FetchFairness

\* a waiter sits in the queue, no resolver call is pending and a slot is free
QueuedBesideFreeSlot ==
    /\ queue # <<>>
    /\ \A c \in LimiterCalls : pc[c] # "woken"
    /\ ~LimiterFull(running, maxConcurrency)

====
